---- MODULE Spec2Model ----
(***************************************************************************)
(* Verification model of the ambiguity-detection / validated-LLM pipeline  *)
(* of clarity-ai (backend/app).                                            *)
(*                                                                         *)
(* The module holds one state machine per component.  Every component has  *)
(* its own variables; a specification runs one component and keeps the     *)
(* variables of the others parked at their constructed values.             *)
(*                                                                         *)
(*   Spec, FairSpec : ContradictionAnalysisService._invoke_llm_with_retry  *)
(*   EvalSpec       : ContextAnalyzer.evaluate_term_in_context             *)
(*   BatchSpec      : batch_evaluate / batch_generate_complete_analysis    *)
(*   RateSpec       : _apply_rate_limit called by concurrent chunk workers *)
(*   LexSpec        : LexiconManager, one call at a time                    *)
(*   LexRaceSpec    : LexiconManager, calls on concurrent request threads   *)
(*   SuggestSpec    : SuggestionGenerator, the bundles it returns           *)
(*   RateSeqSpec    : _apply_rate_limit called from one thread              *)
(*   ScanSpec       : AmbiguityDetector.analyze_text / _lexicon_scan        *)
(*   RagSpec        : rag_service._run_rag_validation_loop                  *)
(*   WindowSpec     : AmbiguityDetector.get_context_window                  *)
(*   OptimizeSpec   : ContextAnalyzer._optimize_context                     *)
(*   PathSpec       : the calls that reach the model, stage by stage        *)
(*   CountSpec      : _request_count under concurrent chunk workers         *)
(*   AnalysisSpec   : ContradictionAnalysisService.run_analysis             *)
(***************************************************************************)
EXTENDS Integers, Sequences, FiniteSets, TLC

(***************************************************************************)
(* Part 1.  ContradictionAnalysisService._invoke_llm_with_retry            *)
(***************************************************************************)
VARIABLES
    llm_available,  \* self.llm_available
    max_retries,    \* self.max_retries
    pc,             \* position of the call: Idle, Attempting, Correcting,
                    \* Success, Failed, Raised
    attempt,        \* the loop variable of `for attempt in range(...)`
    prompt,         \* local `prompt`
    response_str,   \* local `response_str`
    pending_error,  \* str(e) of the ValidationError being handled
    inflight,       \* chain.invoke has been entered and has not come back
    result,         \* the value returned (NoValue before the return)
    trace           \* history: one record per chain.invoke

retryVars == <<llm_available, max_retries, pc, attempt, prompt, response_str,
               pending_error, inflight, result, trace>>

\* ContextAnalyzer.evaluate_term_in_context
VARIABLES
    e_pc,        \* position of the call: Idle, Invoking, Returned, Raised
    e_args,      \* the arguments (term, sentence, surrounding_context)
    e_context,   \* local context_str handed to the chain
    e_outcome,   \* what the call met: none, sanitizer, exception, reply
    e_response,  \* the reply of the chain ("response"), <<>> before it
    e_result     \* the dictionary returned

evalVars == <<e_pc, e_args, e_context, e_outcome, e_response, e_result>>

\* ContextAnalyzer.batch_evaluate and
\* SuggestionGenerator.batch_generate_complete_analysis
VARIABLES
    b_stage,          \* which of the two stages is called: classify, suggest
    b_pc,             \* Idle, Single, Parallel, Returned, Raised
    b_terms,          \* the input list
    batch_size,       \* self.batch_size
    max_parallel,     \* self.max_parallel
    b_chunks,         \* local `chunks`, indexed by chunk_idx from 0
    b_state,          \* per chunk: queued, running, done, failed, collected
    b_outcome,        \* per chunk: what its model call came to
    b_chunk_results,  \* per chunk: the list its worker returned
    b_results,        \* local `results`, and the list returned
    b_order           \* chunk indexes in the order as_completed yielded them

batchVars == <<b_stage, b_pc, b_terms, batch_size, max_parallel, b_chunks,
               b_state, b_outcome, b_chunk_results, b_results, b_order>>

\* _apply_rate_limit of one ContextAnalyzer or SuggestionGenerator instance
VARIABLES
    now,                 \* the clock read by time.time(), in ticks
    last_request_time,   \* self._last_request_time
    rl_pc,               \* per worker: Idle, Compare, Decide, Sleeping, Stamp, Left
    current_time,        \* per worker: local current_time
    time_since_last,     \* per worker: local time_since_last
    wake_at,             \* per worker: the time its time.sleep ends
    left_at              \* per worker: the time it left _apply_rate_limit

rateVars == <<now, last_request_time, rl_pc, current_time, time_since_last,
              wake_at, left_at>>

\* LexiconManager: the ambiguity_lexicon table, the class-level cache and the
\* request threads that call get_lexicon, add_term and remove_term
VARIABLES
    lex_rows,      \* the rows of table ambiguity_lexicon (committed state)
    lex_cache,     \* LexiconManager._cache, per cache key
    lex_now,       \* the clock read by datetime.utcnow(), in ticks
    lex_threaded,  \* the server runs calls on several threads at once
    lex_pc,        \* per client: position inside the call it is running
    lex_op,        \* per client: the call and its arguments
    lex_local,     \* per client: locals `terms` and `term_obj`
    lex_ret,       \* per client: the value returned
    lex_calls,     \* history: number of calls made so far
    lex_dropped,   \* history: cache keys an invalidation has deleted
    lex_seen       \* history, per client: the effective lexicons of the
                   \* storage states that existed during its get_lexicon

lexVars == <<lex_rows, lex_cache, lex_now, lex_threaded, lex_pc, lex_op,
             lex_local, lex_ret, lex_calls, lex_dropped, lex_seen>>

\* SuggestionGenerator: one call of generate_suggestions,
\* generate_complete_analysis or _batch_generate_optimized
VARIABLES
    sg_pc,      \* Idle, Invoking, Individual, Returned
    sg_api,     \* the method called
    sg_terms,   \* the terms of the call (one for the single-term methods)
    sg_context, \* the context argument
    sg_calls,   \* history: number of chain.invoke calls made
    sg_result   \* the bundles returned, one per term

sgVars == <<sg_pc, sg_api, sg_terms, sg_context, sg_calls, sg_result>>

\* AmbiguityDetector.analyze_text and its _lexicon_scan
VARIABLES
    sc_pc,       \* Idle, Returned
    sc_text,     \* the text argument
    sc_lexicon,  \* what get_lexicon returned to the scan
    sc_flagged,  \* flagged_terms of the dictionary returned
    sc_runs,     \* history: calls of analyze_text made with these arguments
    sc_first     \* history: flagged_terms the first of them returned

scanVars == <<sc_pc, sc_text, sc_lexicon, sc_flagged, sc_runs, sc_first>>

\* _run_rag_validation_loop of rag_service
VARIABLES
    rag_pc,        \* Idle, Attempting, Returned, Raised
    rag_caller,    \* llm_prompt_func, validation_model, document_id, query
    rag_attempt,   \* the loop variable `attempt`
    rag_error,     \* local error_message
    rag_trace,     \* history: per attempt, the error shown and the outcome
    rag_result     \* the value returned

ragVars == <<rag_pc, rag_caller, rag_attempt, rag_error, rag_trace, rag_result>>

\* AmbiguityDetector.get_context_window
VARIABLES
    cw_pc,      \* Idle, Returned
    cw_text,    \* text
    cw_start,   \* position_start
    cw_end,     \* position_end
    cw_size,    \* window_size
    cw_result   \* the string returned

cwVars == <<cw_pc, cw_text, cw_start, cw_end, cw_size, cw_result>>

\* ContextAnalyzer._optimize_context
VARIABLES
    oc_pc,        \* Idle, Returned
    oc_sentence,  \* sentence
    oc_context,   \* context (None is kept as the empty string)
    oc_result     \* the string returned

ocVars == <<oc_pc, oc_sentence, oc_context, oc_result>>

\* One stage instance and the model calls it issues on each of its paths
VARIABLES
    p_pc,       \* Idle, BatchReady, BatchWaiting, Items, ItemWaiting, Returned
    p_api,      \* the method called
    p_items,    \* the terms of the call's items, in input order
    p_pos,      \* the item the per-item loop is at
    p_calls,    \* history: the model calls issued by this call, in order
    p_results,  \* the list returned
    p_now,      \* time.time()
    p_last      \* self._last_request_time

pathVars == <<p_pc, p_api, p_items, p_pos, p_calls, p_results, p_now, p_last>>

\* self._request_count of one instance and the threads that run its batch
\* method
VARIABLES
    rc_pc,        \* per thread: Idle, Invoking, Load, Store, Done, Failed
    rc_loaded,    \* per thread: the value of self._request_count it read
    rc_count,     \* self._request_count
    rc_returned   \* history: batch model calls that returned without raising

countVars == <<rc_pc, rc_loaded, rc_count, rc_returned>>

\* ContradictionAnalysisService.run_analysis and the database session
VARIABLES
    ra_pc,         \* Idle, Invoking, Flushing, AddingPairs, Committing,
                   \* Returned, Raised
    ra_found,      \* len(requirements_data)
    ra_session,    \* objects added to db.session and not yet committed
    ra_committed,  \* rows the database holds after commit
    ra_report,     \* local `report`
    ra_db_error    \* history: a session operation raised

runVars == <<ra_pc, ra_found, ra_session, ra_committed, ra_report, ra_db_error>>

\* The components of Parts 1 to 8 and those after them.
coreVars == <<retryVars, evalVars, batchVars, rateVars, lexVars, sgVars,
              scanVars, ragVars>>

laterVars == <<cwVars, ocVars, pathVars, countVars, runVars>>

vars == <<coreVars, laterVars>>

\* What a step of one component leaves alone.
notRetry ==
    <<evalVars, batchVars, rateVars, lexVars, sgVars, scanVars, ragVars,
     laterVars>>
notEval ==
    <<retryVars, batchVars, rateVars, lexVars, sgVars, scanVars, ragVars,
     laterVars>>
notBatch ==
    <<retryVars, evalVars, rateVars, lexVars, sgVars, scanVars, ragVars,
     laterVars>>
notRate ==
    <<retryVars, evalVars, batchVars, lexVars, sgVars, scanVars, ragVars,
     laterVars>>
notLex ==
    <<retryVars, evalVars, batchVars, rateVars, sgVars, scanVars, ragVars,
     laterVars>>
notScan == <<retryVars, evalVars, batchVars, rateVars, lexVars, sgVars, ragVars,
     laterVars>>
notRag == <<retryVars, evalVars, batchVars, rateVars, lexVars, sgVars, scanVars,
     laterVars>>
notSg ==
    <<retryVars, evalVars, batchVars, rateVars, lexVars, scanVars, ragVars,
     laterVars>>

notCw == <<coreVars, ocVars, pathVars, countVars, runVars>>

notOc == <<coreVars, cwVars, pathVars, countVars, runVars>>

notPath == <<coreVars, cwVars, ocVars, countVars, runVars>>

notCount == <<coreVars, cwVars, ocVars, pathVars, runVars>>

\* run_analysis leaves alone all but the retry protocol it calls.
notRun == <<evalVars, batchVars, rateVars, lexVars, sgVars, scanVars, ragVars,
            cwVars, ocVars, pathVars, countVars>>

\* Largest max_retries the model explores (the constructor sets 2).
RetryBound == 3

\* A model reply is a sequence of tokens.  "FJ" is the fence ```json, "F" the
\* bare fence ```, "T" prose, "V1"/"V2" JSON documents that satisfy the
\* schema, "B1"/"B2" texts that do not.
Replies ==
    { <<"V1">>, <<"V2">>, <<"B1">>,
      <<"T", "FJ", "V1", "F">>,
      <<"F", "B2", "F", "T">>,
      <<"FJ", "B1">>,
      <<"T", "V1">> }

\* Index of the first occurrence of tok in s at or after from, Len(s)+1 if none.
IndexOf(s, tok, from) ==
    IF \E i \in from..Len(s) : s[i] = tok
    THEN CHOOSE i \in from..Len(s) :
            /\ s[i] = tok
            /\ \A j \in from..(i - 1) : s[j] # tok
    ELSE Len(s) + 1

Contains(s, tok) == \E i \in 1..Len(s) : s[i] = tok

\* s.split(sep)[0]
SplitPart0(s, sep) == SubSeq(s, 1, IndexOf(s, sep, 1) - 1)

\* s.split(sep)[1], for s that contains sep
SplitPart1(s, sep) ==
    LET i == IndexOf(s, sep, 1)
        j == IndexOf(s, sep, i + 1)
    IN  SubSeq(s, i + 1, j - 1)

\* Step 2 of the try block: take the JSON out of markdown fences.
StripFences(s) ==
    IF Contains(s, "FJ")
    THEN SplitPart0(SplitPart1(s, "FJ"), "F")
    ELSE IF Contains(s, "F")
         THEN SplitPart0(SplitPart1(s, "F"), "F")
         ELSE s

\* response_model.model_validate_json succeeds exactly on a text that is one
\* schema-conforming JSON document.
SchemaValid(body) == body \in { <<"V1">>, <<"V2">> }

\* ContradictionReportLLM(contradictions=[])
EmptyDefault == [contradictions |-> <<>>]

ParsedValue(body) ==
    IF body = <<"V1">> THEN [contradictions |-> <<"conflict">>] ELSE EmptyDefault

NoValue == [contradictions |-> <<"unset">>]

\* str(e) of the ValidationError raised for an invalid text: it names the text.
ValidationErrorText(body) == <<"ValidationError">> \o body

\* str(e) of a ValidationError that chain.invoke itself let escape.
InvokeValidationErrorText == <<"ValidationError", "invoke">>

NoError == <<>>

InitialPrompt == [kind |-> "initial", bad_json |-> <<>>, validation_error |-> NoError]

\* get_json_correction_prompt(bad_json, validation_error): the prompt embeds
\* the invalid output and the validation error.
get_json_correction_prompt(bad_json, validation_error) ==
    [kind |-> "correction", bad_json |-> bad_json, validation_error |-> validation_error]

RetryInit ==
    /\ llm_available \in BOOLEAN
    /\ max_retries \in 0..RetryBound
    /\ pc = "Idle"
    /\ attempt = 0
    /\ prompt = InitialPrompt
    /\ response_str = <<>>
    /\ pending_error = NoError
    /\ inflight = FALSE
    /\ result = NoValue
    /\ trace = <<>>

\* Entry of _invoke_llm_with_retry with the LLM unavailable: raise.
CallUnavailable ==
    /\ pc = "Idle"
    /\ ~llm_available
    /\ pc' = "Raised"
    /\ UNCHANGED <<llm_available, max_retries, attempt, prompt, response_str,
                   pending_error, inflight, result, trace>>
    /\ UNCHANGED notRetry

\* Entry of _invoke_llm_with_retry: prompt = initial_prompt, first iteration.
Call ==
    /\ pc = "Idle"
    /\ llm_available
    /\ pc' = "Attempting"
    /\ attempt' = 0
    /\ prompt' = InitialPrompt
    /\ response_str' = <<>>
    /\ UNCHANGED <<llm_available, max_retries, pending_error, inflight, result, trace>>
    /\ UNCHANGED notRetry

\* chain.invoke({}) is entered with the current prompt.
Invoke ==
    /\ pc = "Attempting"
    /\ ~inflight
    /\ inflight' = TRUE
    /\ trace' = Append(trace, [prompt |-> prompt, outcome |-> "pending",
                               output |-> <<>>, error |-> NoError])
    /\ UNCHANGED <<llm_available, max_retries, pc, attempt, prompt, response_str,
                   pending_error, result>>
    /\ UNCHANGED notRetry

SetLast(t, outcome, output, error) ==
    [t EXCEPT ![Len(t)] = [prompt |-> t[Len(t)].prompt, outcome |-> outcome,
                           output |-> output, error |-> error]]

\* Mutant of ReplyValid: a validated reply is returned only on the last
\* attempt; earlier the loop goes on to the next iteration.
ReplyValid_KeepsLooping ==
    /\ pc = "Attempting"
    /\ inflight
    /\ \E reply \in Replies :
         LET body == StripFences(reply) IN
         /\ SchemaValid(body)
         /\ response_str' = body
         /\ trace' = SetLast(trace, "valid", body, NoError)
         /\ IF attempt = max_retries
            THEN /\ result' = ParsedValue(body)
                 /\ pc' = "Success"
                 /\ attempt' = attempt
            ELSE /\ result' = result
                 /\ pc' = "Attempting"
                 /\ attempt' = attempt + 1
    /\ inflight' = FALSE
    /\ UNCHANGED <<llm_available, max_retries, prompt, pending_error>>
    /\ UNCHANGED notRetry

\* The reply comes back, its fences are stripped and it validates: return it.
ReplyValid ==
    /\ pc = "Attempting"
    /\ inflight
    /\ \E reply \in Replies :
         LET body == StripFences(reply) IN
         /\ SchemaValid(body)
         /\ response_str' = body
         /\ result' = ParsedValue(body)
         /\ pc' = "Success"
         /\ trace' = SetLast(trace, "valid", body, NoError)
    /\ inflight' = FALSE
    /\ UNCHANGED <<llm_available, max_retries, attempt, prompt, pending_error>>
    /\ UNCHANGED notRetry

\* Mutant of ValidationFailed: the last attempt is taken to be the one before
\* max_retries (an off-by-one in the comparison).
ValidationFailed_OffByOne(body, error) ==
    /\ pending_error' = error
    /\ IF attempt + 1 = max_retries
       THEN /\ pc' = "Failed"
            /\ result' = EmptyDefault
       ELSE /\ pc' = "Correcting"
            /\ result' = result

\* Mutant of ValidationFailed: the handler never returns, so the last attempt
\* too goes on to the correction prompt and the loop runs out.
ValidationFailed_NeverReturns(body, error) ==
    /\ pending_error' = error
    /\ pc' = "Correcting"
    /\ result' = result

\* except ValidationError, after validating a reply: return the empty
\* model on the last attempt, otherwise go on to build the correction prompt.
ValidationFailed(body, error) ==
    /\ pending_error' = error
    /\ IF attempt = max_retries
       THEN /\ pc' = "Failed"
            /\ result' = EmptyDefault
       ELSE /\ pc' = "Correcting"
            /\ result' = result

\* The reply comes back, its fences are stripped and it fails validation.
ReplyInvalid ==
    /\ pc = "Attempting"
    /\ inflight
    /\ \E reply \in Replies :
         LET body == StripFences(reply) IN
         /\ ~SchemaValid(body)
         /\ response_str' = body
         /\ trace' = SetLast(trace, "invalid", body, ValidationErrorText(body))
         /\ ValidationFailed(body, ValidationErrorText(body))
    /\ inflight' = FALSE
    /\ UNCHANGED <<llm_available, max_retries, attempt, prompt>>
    /\ UNCHANGED notRetry

\* chain.invoke lets a pydantic ValidationError escape: the same handler
\* runs, with response_str still holding what the previous iteration left.
InvokeRaisesValidation ==
    /\ pc = "Attempting"
    /\ inflight
    /\ trace' = SetLast(trace, "invoke_validation_error", <<>>, InvokeValidationErrorText)
    /\ ValidationFailed(response_str, InvokeValidationErrorText)
    /\ inflight' = FALSE
    /\ UNCHANGED <<llm_available, max_retries, attempt, prompt, response_str>>
    /\ UNCHANGED notRetry

\* Mutant of InvokeRaises: a transport error is retried like a validation
\* error while attempts remain.
InvokeRaises_Retries ==
    /\ pc = "Attempting"
    /\ inflight
    /\ trace' = SetLast(trace, "exception", <<>>, NoError)
    /\ IF attempt = max_retries
       THEN /\ pc' = "Failed"
            /\ result' = EmptyDefault
       ELSE /\ pc' = "Correcting"
            /\ result' = result
    /\ inflight' = FALSE
    /\ UNCHANGED <<llm_available, max_retries, attempt, prompt, response_str,
                   pending_error>>
    /\ UNCHANGED notRetry

\* except Exception: a transport or provider error; return the empty model.
InvokeRaises ==
    /\ pc = "Attempting"
    /\ inflight
    /\ trace' = SetLast(trace, "exception", <<>>, NoError)
    /\ pc' = "Failed"
    /\ result' = EmptyDefault
    /\ inflight' = FALSE
    /\ UNCHANGED <<llm_available, max_retries, attempt, prompt, response_str,
                   pending_error>>
    /\ UNCHANGED notRetry

\* Mutant of Correct: the correction prompt is not assigned, so the next
\* iteration repeats the prompt it already sent.
Correct_BlindRepeat ==
    /\ pc = "Correcting"
    /\ prompt' = prompt
    /\ IF attempt + 1 <= max_retries
       THEN /\ attempt' = attempt + 1
            /\ pc' = "Attempting"
            /\ result' = result
       ELSE /\ attempt' = attempt
            /\ pc' = "Failed"
            /\ result' = EmptyDefault
    /\ UNCHANGED <<llm_available, max_retries, response_str, pending_error,
                   inflight, trace>>
    /\ UNCHANGED notRetry

\* prompt = get_json_correction_prompt(...); the next iteration of the loop
\* starts, or the loop is exhausted and the final fail-safe return is taken.
Correct ==
    /\ pc = "Correcting"
    /\ prompt' = get_json_correction_prompt(response_str, pending_error)
    /\ IF attempt + 1 <= max_retries
       THEN /\ attempt' = attempt + 1
            /\ pc' = "Attempting"
            /\ result' = result
       ELSE /\ attempt' = attempt
            /\ pc' = "Failed"
            /\ result' = EmptyDefault
    /\ UNCHANGED <<llm_available, max_retries, response_str, pending_error,
                   inflight, trace>>
    /\ UNCHANGED notRetry

(***************************************************************************)
(* Properties of _invoke_llm_with_retry                                    *)
(***************************************************************************)
Terminal == {"Success", "Failed"}

AllInvalid == \A k \in 1..Len(trace) : trace[k].outcome = "invalid"

\* C1: with max_retries = N the model is invoked at most N + 1 times; when
\* every reply fails schema validation the call ends after exactly N + 1
\* invocations and returns the empty default without raising.
C1_InvocationBound ==
    /\ Len(trace) <= max_retries + 1
    /\ (pc \in Terminal \cup {"Raised"} /\ Len(trace) > 0 /\ AllInvalid)
          => /\ Len(trace) = max_retries + 1
             /\ pc = "Failed"
             /\ result = EmptyDefault

C1_Witness ==
    /\ pc = "Failed"
    /\ max_retries = 2
    /\ Len(trace) = 3
    /\ AllInvalid

\* C2: a reply that validates ends the run at once: its parsed value is the
\* result, it is the last invocation of the run whatever number of retries
\* remains, and nothing changes after the return.
C2_SuccessStops ==
    /\ [](\A k \in 1..Len(trace) :
             trace[k].outcome = "valid"
                => /\ k = Len(trace)
                   /\ pc = "Success"
                   /\ ~inflight
                   /\ result = ParsedValue(trace[k].output))
    /\ [][pc = "Success" => (pc' = "Success" /\ trace' = trace /\ result' = result)]_vars

C2_Witness ==
    /\ pc = "Success"
    /\ Len(trace) = 1
    /\ max_retries = 2
    /\ trace[1].prompt = InitialPrompt
    /\ result = [contradictions |-> <<"conflict">>]

\* C3: the original prompt is sent on attempt 1 and only there; after an
\* attempt whose reply failed validation with attempts remaining, the next
\* prompt is the correction prompt built from that attempt's invalid output
\* and that attempt's validation error text.
C3_CorrectionPrompt ==
    \A k \in 1..Len(trace) :
        /\ (trace[k].prompt = InitialPrompt) <=> (k = 1)
        /\ (k > 1 /\ trace[k - 1].outcome = "invalid")
              => trace[k].prompt =
                    get_json_correction_prompt(trace[k - 1].output, trace[k - 1].error)
        /\ (trace[k].outcome = "invalid" /\ k <= max_retries /\ k = Len(trace))
              => pc \in {"Correcting", "Attempting"}

C3_Witness ==
    /\ Len(trace) = 3
    /\ trace[1].outcome = "invalid"
    /\ trace[2].outcome = "invalid"
    /\ trace[1].output # trace[2].output
    /\ trace[3].prompt = get_json_correction_prompt(<<"B2">>, <<"ValidationError", "B2">>)

\* C4: a non-validation error raised by a model invocation, on the first
\* attempt or after earlier validation failures, is the last invocation of
\* the run and the run returns the empty default.
C4_TransportErrorStops ==
    \A k \in 1..Len(trace) :
        trace[k].outcome = "exception"
            => /\ k = Len(trace)
               /\ pc = "Failed"
               /\ ~inflight
               /\ result = EmptyDefault

C4_Witness ==
    /\ Len(trace) = 2
    /\ max_retries = 3
    /\ trace[1].outcome = "invalid"
    /\ trace[2].outcome = "exception"
    /\ pc = "Failed"

\* The transitions of the protocol's state machine; Attempting -> Attempting
\* is the model call being entered.
AllowedTransitions ==
    { <<"Idle", "Attempting">>, <<"Attempting", "Attempting">>,
      <<"Attempting", "Success">>, <<"Attempting", "Correcting">>,
      <<"Correcting", "Attempting">>, <<"Attempting", "Failed">> }

\* C5: with the LLM available every run reaches a terminal state, Success or
\* Failed; the only transitions are Attempting -> Success, Attempting ->
\* Correcting (a validation failure with attempts remaining), Correcting ->
\* Attempting and Attempting -> Failed; no step leaves a terminal state.
C5_StateMachine ==
    /\ [][llm_available =>
            /\ <<pc, pc'>> \in AllowedTransitions
            /\ (pc' = "Correcting" =>
                  /\ attempt < max_retries
                  /\ trace'[Len(trace')].outcome \in {"invalid", "invoke_validation_error"})
            /\ (pc' = "Success" => result' # NoValue)
            /\ (pc' = "Failed" => result' = EmptyDefault)]_vars
    /\ [][(pc \in Terminal) => (pc' = pc)]_vars
    /\ (llm_available => <>(pc \in Terminal))
    /\ [](pc \in Terminal => [](pc \in Terminal))

C5_Witness ==
    /\ pc = "Success"
    /\ Len(trace) = 3
    /\ trace[1].outcome = "invalid"
    /\ trace[2].outcome = "invalid"

(***************************************************************************)
(* Part 2.  ContextAnalyzer.evaluate_term_in_context                       *)
(***************************************************************************)

\* Argument texts.  "" is the empty text and "<script>" a text the sanitizer
\* rejects; "ignore previous instructions" is neutralised; None is the
\* absent surrounding_context.
None == "None"

TermTexts == {"fast", "user-friendly", "", "ignore previous instructions"}

SentenceTexts == {"The system is fast.", "<script>"}

ContextTexts == {None, "The system is fast.", "Context. The system is fast."}

\* confidence values are kept in hundredths: 50 is 0.5.
FALLBACK_CONFIDENCE == 50

\* InputSanitizer.sanitize_for_llm_prompt raises ValueError on these.
SanitizerRejects(text) == text \in {"", "<script>"}

\* InputSanitizer.sanitize_for_llm_prompt on a text it accepts.
sanitize_for_llm_prompt(text) ==
    IF text = "ignore previous instructions" THEN "[REDACTED]" ELSE text

\* A reply of the chain is a sequence of lines.  "FENCE" is a line that starts
\* with ```, "prose" a line of plain text; the other lines are JSON documents:
\* two well-formed evaluations, an object without is_ambiguous, an object
\* with confidence 1.5, and a JSON array.
EvalReplies ==
    { <<>>, <<"prose">>,
      <<"AMBIGUOUS">>, <<"CLEAR">>,
      <<"FENCE", "CLEAR", "FENCE">>,
      <<"FENCE", "AMBIGUOUS">>,
      <<"prose", "FENCE", "CLEAR", "FENCE">>,
      <<"MISSING">>, <<"BADCONF">>, <<"ARRAY">> }

JsonDocuments == {"AMBIGUOUS", "CLEAR", "MISSING", "BADCONF", "ARRAY"}

\* The lines between fence lines: in_code_block toggles on every fence line.
RECURSIVE CodeBlockLines(_, _)
CodeBlockLines(lines, in_code_block) ==
    IF lines = <<>> THEN <<>>
    ELSE IF Head(lines) = "FENCE"
         THEN CodeBlockLines(Tail(lines), ~in_code_block)
         ELSE IF in_code_block
              THEN <<Head(lines)>> \o CodeBlockLines(Tail(lines), in_code_block)
              ELSE CodeBlockLines(Tail(lines), in_code_block)

\* The text handed to json.loads.
ExtractJson(response) ==
    IF response # <<>> /\ Head(response) = "FENCE"
    THEN CodeBlockLines(response, FALSE)
    ELSE response

Returns(value) == [raised |-> FALSE, exc |-> "none", value |-> value]

Raises(exc) == [raised |-> TRUE, exc |-> exc, value |-> <<>>]

\* json.loads: one JSON document parses, anything else is a JSONDecodeError.
JsonLoads(text) ==
    IF Len(text) = 1 /\ text[1] \in JsonDocuments
    THEN Returns(text[1])
    ELSE Raises("JSONDecodeError")

\* LLMResponseValidator.validate_context_evaluation: the validated dictionary,
\* ValueError for a missing or ill-typed field or a confidence outside 0..1;
\* data that is no object at all fails with a TypeError.
validate_context_evaluation(data) ==
    CASE data = "AMBIGUOUS" ->
            Returns([is_ambiguous |-> TRUE, confidence |-> 80, reasoning |-> <<"Vague.">>])
      [] data = "CLEAR" ->
            Returns([is_ambiguous |-> FALSE, confidence |-> 90, reasoning |-> <<"Clear">>])
      [] data \in {"MISSING", "BADCONF"} -> Raises("ValueError")
      [] OTHER -> Raises("TypeError")

\* The conservative default every failure path returns.
EvalFallback(reasoning) ==
    [is_ambiguous |-> TRUE, confidence |-> FALLBACK_CONFIDENCE, reasoning |-> reasoning]

\* except (json.JSONDecodeError, ValueError, KeyError) of the parser.
ParseCaught == {"JSONDecodeError", "ValueError", "KeyError"}

\* ContextAnalyzer._parse_evaluation_response
parse_evaluation_response(response) ==
    LET loaded == JsonLoads(ExtractJson(response))
        validated == IF loaded.raised THEN loaded
                     ELSE validate_context_evaluation(loaded.value)
    IN  IF validated.raised
        THEN IF validated.exc \in ParseCaught
             THEN Returns(EvalFallback(<<"Failed to parse LLM response", validated.exc>>))
             ELSE validated
        ELSE validated

\* Mutant of EvalHandles: the handler around the model call catches ValueError only.
EvalHandles_ValueErrorOnly(exc) == exc = "ValueError"

\* except Exception around chain.invoke and the parser: every exception.
EvalHandles(exc) == TRUE

\* What the try block of evaluate_term_in_context comes to for one outcome of
\* chain.invoke: outcome is Returns(reply) or Raises(exc).
EvalTryBlock(outcome) ==
    LET parsed == IF outcome.raised THEN outcome
                  ELSE parse_evaluation_response(outcome.value)
    IN  IF parsed.raised /\ EvalHandles(parsed.exc)
        THEN Returns(EvalFallback(<<"Error during evaluation", parsed.exc>>))
        ELSE parsed

EvalInit ==
    /\ e_pc = "Idle"
    /\ e_args = <<"fast", "The system is fast.", None>>
    /\ e_context = <<>>
    /\ e_outcome = "none"
    /\ e_response = <<>>
    /\ e_result = EvalFallback(<<>>)

\* Entry with arguments the sanitizer rejects: the fallback is returned.
EvalCallRejected ==
    /\ e_pc = "Idle"
    /\ \E term \in TermTexts, sentence \in SentenceTexts, ctx \in ContextTexts :
         /\ \/ SanitizerRejects(term)
            \/ SanitizerRejects(sentence)
            \/ SanitizerRejects(IF ctx # None THEN ctx ELSE sentence)
         /\ e_args' = <<term, sentence, ctx>>
    /\ e_pc' = "Returned"
    /\ e_outcome' = "sanitizer"
    /\ e_result' = EvalFallback(<<"Invalid input detected">>)
    /\ UNCHANGED <<e_context, e_response>>
    /\ UNCHANGED notEval

\* Entry with arguments the sanitizer accepts: the context string is built
\* and chain.invoke is entered.
EvalCall ==
    /\ e_pc = "Idle"
    /\ \E term \in TermTexts, sentence \in SentenceTexts, ctx \in ContextTexts :
         LET sanitized_sentence == sanitize_for_llm_prompt(sentence)
             sanitized_context ==
                 sanitize_for_llm_prompt(IF ctx # None THEN ctx ELSE sentence)
         IN  /\ ~SanitizerRejects(term)
             /\ ~SanitizerRejects(sentence)
             /\ ~SanitizerRejects(IF ctx # None THEN ctx ELSE sentence)
             /\ e_args' = <<term, sentence, ctx>>
             /\ e_context' = IF sanitized_context # sanitized_sentence
                             THEN <<sanitized_context, "Focus sentence", sanitized_sentence>>
                             ELSE <<sanitized_sentence>>
    /\ e_pc' = "Invoking"
    /\ UNCHANGED <<e_outcome, e_response, e_result>>
    /\ UNCHANGED notEval

\* The end of the call for one outcome of the try block.
EvalFinish(done) ==
    /\ e_pc' = IF done.raised THEN "Raised" ELSE "Returned"
    /\ e_result' = IF done.raised THEN e_result ELSE done.value

\* chain.invoke returns a reply; it is parsed and validated.
EvalReply ==
    /\ e_pc = "Invoking"
    /\ \E reply \in EvalReplies :
         /\ e_response' = reply
         /\ EvalFinish(EvalTryBlock(Returns(reply)))
    /\ e_outcome' = "reply"
    /\ UNCHANGED <<e_args, e_context>>
    /\ UNCHANGED notEval

\* chain.invoke raises.
EvalInvokeRaises ==
    /\ e_pc = "Invoking"
    /\ \E exc \in {"APIError", "ValueError"} :
         EvalFinish(EvalTryBlock(Raises(exc)))
    /\ e_outcome' = "exception"
    /\ UNCHANGED <<e_args, e_context, e_response>>
    /\ UNCHANGED notEval

\* The replies that are empty, not JSON, or JSON that fails field validation.
FailingEvalReplies ==
    { <<>>, <<"prose">>, <<"prose", "FENCE", "CLEAR", "FENCE">>,
      <<"MISSING">>, <<"BADCONF">>, <<"ARRAY">> }

MaxTerms == 3

MaxBatchSize == 2

MaxParallel == 2

Stages == {"classify", "suggest"}

Min(a, b) == IF a < b THEN a ELSE b

\* The input list of n items; item i stands for the i-th (term, sentence,
\* context) tuple and is told apart from the others by its number.
InputTerms(n) == [i \in 1..n |-> i]

\* Mutant of NumChunks: the items after the last full chunk get no chunk.
NumChunks_Floor(n, bs) == n \div bs

\* range(0, len(terms), batch_size)
NumChunks(n, bs) == (n + bs - 1) \div bs

\* chunks = [terms[i:i + batch_size] for i in range(0, len(terms), batch_size)]
SplitChunks(terms, bs) ==
    [c \in 0..(NumChunks(Len(terms), bs) - 1) |->
        SubSeq(terms, c * bs + 1, Min(c * bs + bs, Len(terms)))]

\* A list entry: kind says where it comes from, item which input it is about
\* (0: none in particular).  `None` is the unfilled position of [None] * n.
Entry(kind, item) == [kind |-> kind, item |-> item]

NoneEntry == Entry("None", 0)

\* _parse_batch_response, lines 290-294 / _parse_batch_complete_analysis,
\* lines 643-646: the entry that pads a short array.
MissingEntry(stage) == Entry("missing", 0)

\* lines 301-305 / 652-655: the entry for a reply that cannot be parsed.
ParseFailedEntry(stage) == Entry("parse_failed", 0)

\* lines 347-351 of the classifier: the entry for a chunk whose worker raised.
EvalChunkErrorEntry == Entry("chunk_error", 0)

\* lines 515-518 of the generator: the entry names the item's term.
GenChunkErrorEntry(item) == Entry("chunk_error", item)

\* The reply of one batch model call: the outermost JSON value, whether the
\* reply starts with a fence line around it, and the array's elements.
\* Element i of an in-order array is the model's answer for item i.
ArrayReply(fenced, elems) == [kind |-> "array", fenced |-> fenced, elems |-> elems]

OtherReply(kind) == [kind |-> kind, fenced |-> FALSE, elems |-> <<>>]

\* The replies explored for a chunk: the array of the right length, one
\* element short, one element long (also inside a fence), a JSON object and
\* text that is not JSON.
BatchReplies(chunk) ==
    LET answers == [i \in 1..Len(chunk) |-> Entry("validated", chunk[i])]
    IN  { ArrayReply(f, answers) : f \in BOOLEAN }
          \cup { ArrayReply(FALSE, SubSeq(answers, 1, Len(chunk) - 1)),
                 ArrayReply(FALSE, Append(answers, Entry("validated", 0))),
                 OtherReply("object"), OtherReply("text") }

\* What kind of reply it was for a chunk of the given length.
ReplyOutcome(reply, expected_count) ==
    IF reply.kind # "array" THEN "malformed"
    ELSE IF Len(reply.elems) < expected_count THEN "short"
    ELSE IF Len(reply.elems) > expected_count THEN "long"
    ELSE "valid"

\* LLMResponseValidator.validate_batch_evaluation / the per-item validation
\* loop of the generator: the validated elements, in the order of the array.
validate_batch_evaluation(data) == data

\* The `while len(results) < expected_count: results.append(...)` loop.
RECURSIVE PadTo(_, _, _)
PadTo(results, expected_count, entry) ==
    IF Len(results) < expected_count
    THEN PadTo(Append(results, entry), expected_count, entry)
    ELSE results

\* The dictionary a fallback entry of the classifier stands for.
FallbackEvaluationOf(kind) ==
    CASE kind = "missing" ->
            EvalFallback("Missing result from batch evaluation")
      [] kind = "parse_failed" ->
            EvalFallback("Failed to parse batch response")
      [] kind = "chunk_error" ->
            EvalFallback("Error in parallel processing")

\* Mutant of parse_batch_response: a long array is returned whole.
parse_batch_response_NoTruncation(stage, reply, expected_count) ==
    IF reply.kind # "array"
    THEN [i \in 1..expected_count |-> ParseFailedEntry(stage)]
    ELSE PadTo(validate_batch_evaluation(reply.elems),
               expected_count, MissingEntry(stage))

\* Mutant of parse_batch_response: a short array is returned as it is.
parse_batch_response_NoPadding(stage, reply, expected_count) ==
    IF reply.kind # "array"
    THEN [i \in 1..expected_count |-> ParseFailedEntry(stage)]
    ELSE SubSeq(validate_batch_evaluation(reply.elems), 1,
                Min(Len(reply.elems), expected_count))

\* ContextAnalyzer._parse_batch_response and
\* SuggestionGenerator._parse_batch_complete_analysis.
parse_batch_response(stage, reply, expected_count) ==
    IF reply.kind # "array"
    THEN [i \in 1..expected_count |-> ParseFailedEntry(stage)]
    ELSE LET padded == PadTo(validate_batch_evaluation(reply.elems),
                             expected_count, MissingEntry(stage))
         IN  SubSeq(padded, 1, expected_count)

\* _fallback_sequential_evaluate / _fallback_individual_generate: one entry
\* per item, from the item's own call ("single") or its fallback.
SequentialOutcomes(chunk) ==
    { [i \in 1..Len(chunk) |-> Entry(k[i], chunk[i])] :
         k \in [1..Len(chunk) -> {"single", "single_fallback"}] }

BatchInit ==
    /\ b_stage = "classify"
    /\ b_pc = "Idle"
    /\ b_terms = <<>>
    /\ batch_size = 1
    /\ max_parallel = 1
    /\ b_chunks = <<>>
    /\ b_state = <<>>
    /\ b_outcome = <<>>
    /\ b_chunk_results = <<>>
    /\ b_results = <<>>
    /\ b_order = <<>>

\* if not terms: return []
BatchCallEmpty ==
    /\ b_pc = "Idle"
    /\ \E stage \in Stages, bs \in 1..MaxBatchSize, mp \in 1..MaxParallel :
         /\ b_stage' = stage
         /\ batch_size' = bs
         /\ max_parallel' = mp
    /\ b_terms' = <<>>
    /\ b_results' = <<>>
    /\ b_pc' = "Returned"
    /\ UNCHANGED <<b_chunks, b_state, b_outcome, b_chunk_results, b_order>>
    /\ UNCHANGED notBatch

\* len(terms) <= batch_size: the batch call is made in the caller's thread.
BatchCallSingle ==
    /\ b_pc = "Idle"
    /\ \E stage \in Stages, n \in 1..MaxTerms, bs \in 1..MaxBatchSize,
          mp \in 1..MaxParallel :
         /\ n <= bs
         /\ b_stage' = stage
         /\ batch_size' = bs
         /\ max_parallel' = mp
         /\ b_terms' = InputTerms(n)
         /\ b_chunks' = [c \in {0} |-> InputTerms(n)]
    /\ b_state' = [c \in {0} |-> "running"]
    /\ b_outcome' = [c \in {0} |-> "none"]
    /\ b_chunk_results' = [c \in {0} |-> <<>>]
    /\ b_results' = <<>>
    /\ b_pc' = "Single"
    /\ UNCHANGED b_order
    /\ UNCHANGED notBatch

\* len(terms) > batch_size: the chunks are cut, results = [None] * n, and
\* every chunk is submitted to the executor.
BatchCallParallel ==
    /\ b_pc = "Idle"
    /\ \E stage \in Stages, n \in 1..MaxTerms, bs \in 1..MaxBatchSize,
          mp \in 1..MaxParallel :
         /\ n > bs
         /\ b_stage' = stage
         /\ batch_size' = bs
         /\ max_parallel' = mp
         /\ b_terms' = InputTerms(n)
         /\ b_chunks' = SplitChunks(InputTerms(n), bs)
         /\ b_state' = [c \in 0..(NumChunks(n, bs) - 1) |-> "queued"]
         /\ b_outcome' = [c \in 0..(NumChunks(n, bs) - 1) |-> "none"]
         /\ b_chunk_results' = [c \in 0..(NumChunks(n, bs) - 1) |-> <<>>]
         /\ b_results' = [i \in 1..n |-> NoneEntry]
    /\ b_pc' = "Parallel"
    /\ UNCHANGED b_order
    /\ UNCHANGED notBatch

Running == {c \in DOMAIN b_state : b_state[c] = "running"}

\* Mutant of WorkerStart: a queued chunk starts however many are running.
WorkerStart_Unbounded ==
    /\ b_pc = "Parallel"
    /\ \E c \in DOMAIN b_state :
         /\ b_state[c] = "queued"
         /\ \A d \in DOMAIN b_state : d < c => b_state[d] # "queued"
         /\ b_state' = [b_state EXCEPT ![c] = "running"]
    /\ UNCHANGED <<b_stage, b_pc, b_terms, batch_size, max_parallel, b_chunks,
                   b_outcome, b_chunk_results, b_results, b_order>>
    /\ UNCHANGED notBatch

\* A pool thread takes the oldest queued chunk; at most max_workers run.
WorkerStart ==
    /\ b_pc = "Parallel"
    /\ Cardinality(Running) < max_parallel
    /\ \E c \in DOMAIN b_state :
         /\ b_state[c] = "queued"
         /\ \A d \in DOMAIN b_state : d < c => b_state[d] # "queued"
         /\ b_state' = [b_state EXCEPT ![c] = "running"]
    /\ UNCHANGED <<b_stage, b_pc, b_terms, batch_size, max_parallel, b_chunks,
                   b_outcome, b_chunk_results, b_results, b_order>>
    /\ UNCHANGED notBatch

\* The batch model call of a chunk returns and its reply is parsed.
WorkerReply ==
    /\ b_pc \in {"Single", "Parallel"}
    /\ \E c \in Running :
         \E reply \in BatchReplies(b_chunks[c]) :
            /\ b_chunk_results' =
                  [b_chunk_results EXCEPT
                      ![c] = parse_batch_response(b_stage, reply, Len(b_chunks[c]))]
            /\ b_outcome' =
                  [b_outcome EXCEPT ![c] = ReplyOutcome(reply, Len(b_chunks[c]))]
            /\ b_state' = [b_state EXCEPT ![c] = "done"]
    /\ UNCHANGED <<b_stage, b_pc, b_terms, batch_size, max_parallel, b_chunks,
                   b_results, b_order>>
    /\ UNCHANGED notBatch

\* The batch model call of a chunk raises: the items are done one by one.
WorkerInvokeRaises ==
    /\ b_pc \in {"Single", "Parallel"}
    /\ \E c \in Running :
         \E entries \in SequentialOutcomes(b_chunks[c]) :
            /\ b_chunk_results' = [b_chunk_results EXCEPT ![c] = entries]
            /\ b_outcome' = [b_outcome EXCEPT ![c] = "exception"]
            /\ b_state' = [b_state EXCEPT ![c] = "done"]
    /\ UNCHANGED <<b_stage, b_pc, b_terms, batch_size, max_parallel, b_chunks,
                   b_results, b_order>>
    /\ UNCHANGED notBatch

\* The worker raises outside the try block of the batch method (building the
\* prompt or the chain): the exception is the future's outcome.
WorkerRaises ==
    /\ b_pc \in {"Single", "Parallel"}
    /\ \E c \in Running :
         /\ b_outcome' = [b_outcome EXCEPT ![c] = "raised"]
         /\ b_state' = [b_state EXCEPT ![c] = "failed"]
    /\ UNCHANGED <<b_stage, b_pc, b_terms, batch_size, max_parallel, b_chunks,
                   b_chunk_results, b_results, b_order>>
    /\ UNCHANGED notBatch

\* Mutant of StartIdx: the chunk's place is taken from the number of chunks
\* collected before it, the completion order.
StartIdx_ByCompletion(chunk_idx) == Len(b_order) * batch_size

\* start_idx = chunk_idx * self.batch_size
StartIdx(chunk_idx) == chunk_idx * batch_size

\* for i, result in enumerate(values): results[start_idx + i] = result
Place(results, start_idx, values) ==
    [p \in 1..Len(results) |->
        IF p - 1 >= start_idx /\ p - 1 < start_idx + Len(values)
        THEN values[p - start_idx]
        ELSE results[p]]

\* as_completed yields a future that returned: its list is placed.
CollectResult ==
    /\ b_pc = "Parallel"
    /\ \E c \in DOMAIN b_state :
         /\ b_state[c] = "done"
         /\ b_results' = Place(b_results, StartIdx(c), b_chunk_results[c])
         /\ b_state' = [b_state EXCEPT ![c] = "collected"]
         /\ b_order' = Append(b_order, c)
    /\ UNCHANGED <<b_stage, b_pc, b_terms, batch_size, max_parallel, b_chunks,
                   b_outcome, b_chunk_results>>
    /\ UNCHANGED notBatch

\* The entries written for a chunk whose future raised.
ChunkErrorEntries(stage, chunk) ==
    [i \in 1..Len(chunk) |->
        IF stage = "classify" THEN EvalChunkErrorEntry ELSE GenChunkErrorEntry(chunk[i])]

\* Mutant of CollectFailure: the exception of the future is not caught.
CollectFailure_Reraises ==
    /\ b_pc = "Parallel"
    /\ \E c \in DOMAIN b_state :
         /\ b_state[c] = "failed"
         /\ b_state' = [b_state EXCEPT ![c] = "collected"]
         /\ b_order' = Append(b_order, c)
    /\ b_pc' = "Raised"
    /\ UNCHANGED <<b_stage, b_terms, batch_size, max_parallel, b_chunks,
                   b_outcome, b_chunk_results, b_results>>
    /\ UNCHANGED notBatch

\* as_completed yields a future that raised: its positions get fallbacks.
CollectFailure ==
    /\ b_pc = "Parallel"
    /\ \E c \in DOMAIN b_state :
         /\ b_state[c] = "failed"
         /\ b_results' = Place(b_results, StartIdx(c),
                               ChunkErrorEntries(b_stage, b_chunks[c]))
         /\ b_state' = [b_state EXCEPT ![c] = "collected"]
         /\ b_order' = Append(b_order, c)
    /\ UNCHANGED <<b_stage, b_pc, b_terms, batch_size, max_parallel, b_chunks,
                   b_outcome, b_chunk_results>>
    /\ UNCHANGED notBatch

\* Every future has been handled: the executor is left and results returned.
ParallelReturn ==
    /\ b_pc = "Parallel"
    /\ \A c \in DOMAIN b_state : b_state[c] = "collected"
    /\ b_pc' = "Returned"
    /\ UNCHANGED <<b_stage, b_terms, batch_size, max_parallel, b_chunks, b_state,
                   b_outcome, b_chunk_results, b_results, b_order>>
    /\ UNCHANGED notBatch

\* The single batch call returned: its list is the result of the call.
SingleReturn ==
    /\ b_pc = "Single"
    /\ b_state[0] = "done"
    /\ b_results' = b_chunk_results[0]
    /\ b_pc' = "Returned"
    /\ UNCHANGED <<b_stage, b_terms, batch_size, max_parallel, b_chunks, b_state,
                   b_outcome, b_chunk_results, b_order>>
    /\ UNCHANGED notBatch

\* The single batch call raised: nothing catches it.
SingleRaise ==
    /\ b_pc = "Single"
    /\ b_state[0] = "failed"
    /\ b_pc' = "Raised"
    /\ UNCHANGED <<b_stage, b_terms, batch_size, max_parallel, b_chunks, b_state,
                   b_outcome, b_chunk_results, b_results, b_order>>
    /\ UNCHANGED notBatch

(***************************************************************************)
(* Properties of the batch paths                                           *)
(***************************************************************************)
ParallelPath == Len(b_terms) > batch_size

\* C7: whatever the input length, batch_size, max_parallel and the outcomes
\* of the model calls (valid reply, malformed reply, array of the wrong
\* length, exception), the list returned has exactly one entry per input and
\* no position is left None; the call raises only if a worker raised outside
\* its model call.
C7_OneResultPerInput ==
    /\ b_pc = "Returned" =>
          /\ Len(b_results) = Len(b_terms)
          /\ \A p \in 1..Len(b_results) : b_results[p] # NoneEntry
    /\ b_pc = "Raised" => \E c \in DOMAIN b_outcome : b_outcome[c] = "raised"

C7_Witness ==
    /\ b_pc = "Returned"
    /\ Len(b_terms) = 3
    /\ batch_size = 2
    /\ b_outcome[0] = "short"
    /\ b_outcome[1] = "exception"

\* C8: in the parallel path of both stages, whatever the order in which the
\* chunk calls complete, output position p holds the entry that chunk
\* floor(p / batch_size) produced at offset p mod batch_size, which is an
\* entry for input p.
C8_InputOrder ==
    \A p \in 0..(Len(b_results) - 1) :
        LET c == p \div batch_size
            off == p % batch_size
        IN  (ParallelPath /\ b_state[c] = "collected" /\ b_outcome[c] # "raised")
               => /\ b_results[p + 1] = b_chunk_results[c][off + 1]
                  /\ b_results[p + 1].item \in {0, b_terms[p + 1]}

C8_Witness ==
    /\ b_pc = "Returned"
    /\ b_stage = "suggest"
    /\ Len(b_terms) = 3
    /\ batch_size = 2
    /\ max_parallel = 2
    /\ b_order = <<1, 0>>
    /\ \A c \in {0, 1} : b_outcome[c] = "valid"

\* C9: when the worker of a chunk raises in the parallel path, the call does
\* not raise; every position of that chunk gets a fallback entry and every
\* position of every other chunk keeps the entry its own chunk produced.
C9_ChunkFailureIsolated ==
    /\ ParallelPath => b_pc # "Raised"
    /\ (ParallelPath /\ b_pc = "Returned") =>
          \A c \in DOMAIN b_chunks :
             \A off \in 0..(Len(b_chunks[c]) - 1) :
                LET p == c * batch_size + off + 1 IN
                IF b_outcome[c] = "raised"
                THEN /\ b_results[p].kind = "chunk_error"
                     /\ b_stage = "suggest" => b_results[p].item = b_terms[p]
                ELSE b_results[p] = b_chunk_results[c][off + 1]

C9_Witness ==
    /\ b_pc = "Returned"
    /\ Len(b_terms) = 3
    /\ batch_size = 1
    /\ b_outcome[0] = "valid"
    /\ b_outcome[1] = "raised"
    /\ b_outcome[2] = "valid"
    /\ b_results[2].kind = "chunk_error"

\* C27: at every moment of a batch call at most max_parallel chunk model
\* calls are in flight, and when the call returns every chunk has been
\* processed and its outcome collected.
C27_BoundedParallelism ==
    /\ Cardinality(Running) <= max_parallel
    /\ (b_pc = "Returned" /\ ParallelPath)
           => \A c \in DOMAIN b_chunks :
                 /\ b_state[c] = "collected"
                 /\ b_outcome[c] # "none"

\* C27 witness: three chunks, two of them running and the third waiting for
\* a thread of the pool.
C27_Witness ==
    /\ b_pc = "Parallel"
    /\ max_parallel = 2
    /\ Cardinality(Running) = 2
    /\ \E c \in DOMAIN b_state : b_state[c] = "queued"

\* The chunks c, c + 1, ... laid end to end.
RECURSIVE ChunksFrom(_, _)
ChunksFrom(chunks, c) ==
    IF c \notin DOMAIN chunks
    THEN <<>>
    ELSE chunks[c] \o ChunksFrom(chunks, c + 1)

\* C28: a batch call returns an empty list with no model call for empty
\* input, takes the single-call path when 1 <= n <= batch_size (n =
\* batch_size included), and for n > batch_size splits the input into
\* ceil(n / batch_size) consecutive chunks of at most batch_size items that
\* together cover every input exactly once.
C28_PathAndChunks ==
    [][(b_pc = "Idle" /\ b_pc' # "Idle")
          => LET n == Len(b_terms')
                 bs == batch_size'
             IN  /\ n = 0 =>
                       /\ b_pc' = "Returned"
                       /\ b_results' = <<>>
                       /\ b_chunks' = <<>>
                 /\ (1 <= n /\ n <= bs) =>
                       /\ b_pc' = "Single"
                       /\ DOMAIN b_chunks' = {0}
                       /\ b_chunks'[0] = b_terms'
                 /\ n > bs =>
                       /\ b_pc' = "Parallel"
                       /\ \E k \in 1..n :
                             /\ (k - 1) * bs < n
                             /\ n <= k * bs
                             /\ DOMAIN b_chunks' = 0..(k - 1)
                       /\ \A c \in DOMAIN b_chunks' :
                             Len(b_chunks'[c]) \in 1..bs
                       /\ ChunksFrom(b_chunks', 0) = b_terms']_vars

\* C28 witness: three items with batch_size 2 are cut into a chunk of two
\* and a chunk of one.
C28_Witness ==
    /\ b_pc = "Parallel"
    /\ Len(b_terms) = 3
    /\ batch_size = 2
    /\ DOMAIN b_chunks = {0, 1}
    /\ Len(b_chunks[0]) = 2
    /\ Len(b_chunks[1]) = 1

\* The entry is a fallback of _parse_batch_response: is_ambiguous = true,
\* confidence = 0.5.
IsParseFallback(entry) ==
    /\ entry.kind \in {"missing", "parse_failed"}
    /\ FallbackEvaluationOf(entry.kind).is_ambiguous
    /\ FallbackEvaluationOf(entry.kind).confidence = 50

\* C29: _parse_batch_response, given a JSON array of k validated elements
\* for n expected items, returns exactly n results, the first min(k, n) of
\* them the validated elements in response order and, when k < n, the rest
\* fallback entries (is_ambiguous = true, confidence = 0.5); a reply that is
\* not a JSON array yields n fallback entries.
C29_PadAndTruncate ==
    \A c \in DOMAIN b_chunk_results :
        (/\ b_stage = "classify"
         /\ b_state[c] \in {"done", "collected"}
         /\ b_outcome[c] \in {"valid", "short", "long", "malformed"})
            => \E reply \in BatchReplies(b_chunks[c]) :
                  LET n == Len(b_chunks[c])
                      k == Len(reply.elems)
                      res == b_chunk_results[c]
                  IN  /\ ReplyOutcome(reply, n) = b_outcome[c]
                      /\ Len(res) = n
                      /\ IF reply.kind = "array"
                         THEN /\ \A i \in 1..Min(k, n) :
                                    res[i] = reply.elems[i]
                              /\ \A i \in (k + 1)..n :
                                    IsParseFallback(res[i])
                         ELSE \A i \in 1..n : IsParseFallback(res[i])

\* C29 witness: the array for a chunk of two items has one element; the
\* second result is the padding entry.
C29_Witness ==
    /\ b_stage = "classify"
    /\ DOMAIN b_chunks = {0}
    /\ Len(b_chunks[0]) = 2
    /\ b_state[0] = "done"
    /\ b_outcome[0] = "short"
    /\ b_chunk_results[0][1].kind = "validated"
    /\ b_chunk_results[0][2].kind = "missing"

\* The entry is what the item's own model call came to: its answer, or the
\* fallback of evaluate_term_in_context / generate_complete_analysis after
\* that call failed.
FromItemCall(entry) == entry.kind \in {"single", "single_fallback"}

\* C21: when the single model call of a batch raises, the stage issues no
\* further model call for the items of that batch and returns fallback
\* results for them: no entry of that batch comes from an item's own call.
C21_NoCallAfterBatchFailure ==
    \A c \in DOMAIN b_outcome :
        (b_outcome[c] = "exception" /\ b_state[c] \in {"done", "collected"})
            => /\ Len(b_chunk_results[c]) = Len(b_chunks[c])
               /\ \A i \in 1..Len(b_chunk_results[c]) :
                      ~FromItemCall(b_chunk_results[c][i])

(***************************************************************************)
(* Part 4.  _apply_rate_limit under concurrent chunk workers               *)
(***************************************************************************)

\* MIN_REQUEST_INTERVAL (0.1 s) in clock ticks of 50 ms.
MIN_REQUEST_INTERVAL == 2

\* Number of chunk workers that call _apply_rate_limit, and the last tick.
RateWorkers == 2

MaxTime == 6

Workers == 1..RateWorkers

\* The clock at the first call: time.time() is far more than one interval
\* above the 0 the constructor stores in _last_request_time.
ClockStart == MIN_REQUEST_INTERVAL

RateInit ==
    /\ now = ClockStart
    /\ last_request_time = 0
    /\ rl_pc = [w \in Workers |-> "Idle"]
    /\ current_time = [w \in Workers |-> 0]
    /\ time_since_last = [w \in Workers |-> 0]
    /\ wake_at = [w \in Workers |-> 0]
    /\ left_at = [w \in Workers |-> 0]

\* Time passes.
Tick ==
    /\ now < MaxTime
    /\ now' = now + 1
    /\ UNCHANGED <<last_request_time, rl_pc, current_time, time_since_last,
                   wake_at, left_at>>
    /\ UNCHANGED notRate

\* current_time = time.time()
RateReadClock ==
    /\ \E w \in Workers :
         /\ rl_pc[w] = "Idle"
         /\ current_time' = [current_time EXCEPT ![w] = now]
         /\ rl_pc' = [rl_pc EXCEPT ![w] = "Compare"]
    /\ UNCHANGED <<now, last_request_time, time_since_last, wake_at, left_at>>
    /\ UNCHANGED notRate

\* time_since_last = current_time - self._last_request_time
RateReadLast ==
    /\ \E w \in Workers :
         /\ rl_pc[w] = "Compare"
         /\ time_since_last' =
               [time_since_last EXCEPT ![w] = current_time[w] - last_request_time]
         /\ rl_pc' = [rl_pc EXCEPT ![w] = "Decide"]
    /\ UNCHANGED <<now, last_request_time, current_time, wake_at, left_at>>
    /\ UNCHANGED notRate

\* Mutant of RateDecide: a call that arrives too soon does not sleep.
RateDecide_NoSleep ==
    /\ \E w \in Workers :
         /\ rl_pc[w] = "Decide"
         /\ rl_pc' = [rl_pc EXCEPT ![w] = "Stamp"]
    /\ UNCHANGED <<now, last_request_time, current_time, time_since_last,
                   wake_at, left_at>>
    /\ UNCHANGED notRate

\* if time_since_last < MIN_REQUEST_INTERVAL: time.sleep(interval - it)
RateDecide ==
    /\ \E w \in Workers :
         /\ rl_pc[w] = "Decide"
         /\ IF time_since_last[w] < MIN_REQUEST_INTERVAL
            THEN /\ wake_at' = [wake_at EXCEPT
                                  ![w] = now + (MIN_REQUEST_INTERVAL - time_since_last[w])]
                 /\ rl_pc' = [rl_pc EXCEPT ![w] = "Sleeping"]
            ELSE /\ wake_at' = wake_at
                 /\ rl_pc' = [rl_pc EXCEPT ![w] = "Stamp"]
    /\ UNCHANGED <<now, last_request_time, current_time, time_since_last, left_at>>
    /\ UNCHANGED notRate

\* time.sleep returns, not before the time asked for.
RateWake ==
    /\ \E w \in Workers :
         /\ rl_pc[w] = "Sleeping"
         /\ now >= wake_at[w]
         /\ rl_pc' = [rl_pc EXCEPT ![w] = "Stamp"]
    /\ UNCHANGED <<now, last_request_time, current_time, time_since_last,
                   wake_at, left_at>>
    /\ UNCHANGED notRate

\* self._last_request_time = time.time(), and the worker goes on to its call.
RateStamp ==
    /\ \E w \in Workers :
         /\ rl_pc[w] = "Stamp"
         /\ last_request_time' = now
         /\ left_at' = [left_at EXCEPT ![w] = now]
         /\ rl_pc' = [rl_pc EXCEPT ![w] = "Left"]
    /\ UNCHANGED <<now, current_time, time_since_last, wake_at>>
    /\ UNCHANGED notRate

\* C10: any two batch model calls of one instance, also those of concurrent
\* chunk workers, leave _apply_rate_limit at least MIN_REQUEST_INTERVAL apart.
C10_MinSpacing ==
    \A v, w \in Workers :
        (v # w /\ rl_pc[v] = "Left" /\ rl_pc[w] = "Left")
            => \/ left_at[v] - left_at[w] >= MIN_REQUEST_INTERVAL
               \/ left_at[w] - left_at[v] >= MIN_REQUEST_INTERVAL

\* In a single thread the calls follow one another: call w is entered when
\* the calls before it have returned.
RateReadClockInTurn ==
    /\ RateReadClock
    /\ \A w \in Workers :
          rl_pc'[w] # rl_pc[w] => \A v \in 1..(w - 1) : rl_pc[v] = "Left"

\* The request time recorded when call w is made in a single thread: what
\* the call before it stored, or the constructor's 0.
RecordedBefore(w) == IF w = 1 THEN 0 ELSE left_at[w - 1]

\* C30: in a single thread, a call of _apply_rate_limit made less than
\* MIN_REQUEST_INTERVAL after the recorded request time does not return
\* before that time plus MIN_REQUEST_INTERVAL, a call made later returns
\* without sleeping, and in both cases the recorded time becomes the time
\* of return.
C30_SingleThreadSpacing ==
    \A w \in Workers :
        rl_pc[w] = "Left"
            => /\ IF current_time[w] - RecordedBefore(w) < MIN_REQUEST_INTERVAL
                  THEN left_at[w] >= RecordedBefore(w) + MIN_REQUEST_INTERVAL
                  ELSE wake_at[w] = 0
               /\ (\A v \in Workers : v > w => rl_pc[v] # "Left")
                      => last_request_time = left_at[w]

\* C30 witness: the second call came too soon, slept, and returned exactly
\* one interval after the first.
C30_Witness ==
    /\ rl_pc[1] = "Left"
    /\ rl_pc[2] = "Left"
    /\ current_time[2] - left_at[1] < MIN_REQUEST_INTERVAL
    /\ wake_at[2] > 0
    /\ left_at[2] = left_at[1] + MIN_REQUEST_INTERVAL

(***************************************************************************)
(* Part 5.  LexiconManager: get_lexicon, add_term, remove_term and the     *)
(* class-level cache                                                       *)
(***************************************************************************)

\* Calls explored, request threads, and clock ticks explored.
MaxCalls == 3
LexClients == 2
MaxLexTime == 1

\* _cache_ttl = timedelta(hours=1), in ticks of one hour
CACHE_TTL == 1

Clients == 1..LexClients

Owners == {"u1"}

\* The values of the owner_id argument: a user id, or None for Global.
OwnerIds == Owners \cup {None}

\* A term is a string, modelled as the sequence of its code points:
\* 32 is the space, 65 is "A", 97 is "a", 98 is "b".
TermInputs == { <<65>>, <<98, 32>>, <<32>> }

\* (term_type, owner_id) as the store's three scopes use them.
Scopes ==
    { [type |-> "global", owner_id |-> None] }
    \cup { [type |-> t, owner_id |-> o] :
             t \in {"custom_include", "custom_exclude"}, o \in Owners }

\* str.lower()
lower(term) ==
    [i \in 1..Len(term) |->
        IF term[i] \in 65..90 THEN term[i] + 32 ELSE term[i]]

\* str.strip()
strip(term) ==
    LET kept == { i \in 1..Len(term) : term[i] \notin {9, 10, 13, 32} }
    IN  IF kept = {}
        THEN <<>>
        ELSE SubSeq(term,
                    CHOOSE i \in kept : \A j \in kept : i <= j,
                    CHOOSE i \in kept : \A j \in kept : j <= i)

\* a < b for Python strings: the first differing code point decides, and a
\* proper prefix is smaller.
StrLess(a, b) ==
    \E k \in 1..(Min(Len(a), Len(b)) + 1) :
        /\ \A i \in 1..(k - 1) : a[i] = b[i]
        /\ IF k > Len(a)
           THEN k <= Len(b)
           ELSE IF k > Len(b) THEN FALSE ELSE a[k] < b[k]

\* sorted(list(terms))
RECURSIVE sorted(_)
sorted(terms) ==
    IF terms = {}
    THEN <<>>
    ELSE LET first == CHOOSE x \in terms :
                          \A y \in terms \ {x} : StrLess(x, y)
         IN  <<first>> \o sorted(terms \ {first})

\* cache_key = f"lexicon_{owner_id or 'global'}"
CacheKey(owner_id) ==
    IF owner_id = None THEN <<"lexicon", "global">> ELSE <<"lexicon", owner_id>>

CacheKeys == { CacheKey(o) : o \in OwnerIds }

\* A key that is not in the dictionary.
\* The field `outdated` is history: the owner_ids whose rows were written
\* after the entry's list was read from storage.
NoEntry == [present |-> FALSE, terms |-> <<>>, timestamp |-> 0, outdated |-> {}]

LexRow(id, term, type, owner_id) ==
    [id |-> id, term |-> term, type |-> type, owner_id |-> owner_id]

\* AmbiguityLexicon.query.filter_by(type=..., owner_id=...).all()
QueryAll(rows, type, owner_id) ==
    { r \in rows : r.type = type /\ r.owner_id = owner_id }

\* AmbiguityLexicon.query.filter_by(term=..., type=..., owner_id=...)
QueryTerm(rows, term, type, owner_id) ==
    { r \in rows : r.term = term /\ r.type = type /\ r.owner_id = owner_id }

\* for term_obj in ...: terms.add(term_obj.term.lower())
AddAll(terms, found) == terms \cup { lower(r.term) : r \in found }

\* A loop that leaves `terms` as it was.
DiscardAll_Skipped(terms, found) == terms

\* for term_obj in custom_exclude: terms.discard(term_obj.term.lower())
DiscardAll(terms, found) == terms \ { lower(r.term) : r \in found }

\* A deletion that leaves the dictionary as it was.
Deleted_Kept(cache, key) == cache

\* del self._cache[cache_key]
Deleted(cache, key) == [cache EXCEPT ![key] = NoEntry]

\* Rows the table may hold before the first call of a run (written by
\* earlier add_term calls, so normalized).
SeedRows ==
    { LexRow(1, <<97>>, "global", None),
      LexRow(1, <<97, 98>>, "custom_include", "u1"),
      LexRow(1, <<97>>, "custom_exclude", "u1") }

\* The primary key tells rows with equal columns apart: it is modelled as
\* the least number no row with these columns carries.
NextId(rows, term, type, owner_id) ==
    LET used == { r.id : r \in { q \in rows : /\ q.term = term
                                               /\ q.type = type
                                               /\ q.owner_id = owner_id } }
    IN  CHOOSE k \in 1..(Cardinality(used) + 1) :
            /\ k \notin used
            /\ \A j \in 1..(k - 1) : j \in used

NoOp == [name |-> "none", term |-> <<>>, type |-> "", owner_id |-> None]
NoRow == LexRow(0, <<>>, "", None)
NoLocal == [terms |-> {}, term_obj |-> NoRow, outdated |-> {}]
NoRet == [kind |-> "none", terms |-> <<>>, ok |-> FALSE, source |-> ""]

ListRet(terms, source) ==
    [kind |-> "list", terms |-> terms, ok |-> FALSE, source |-> source]

BoolRet(ok) == [kind |-> "bool", terms |-> <<>>, ok |-> ok, source |-> ""]

RaiseRet(what) == [kind |-> "raise", terms |-> <<>>, ok |-> FALSE, source |-> what]

\* The effective lexicon of a storage content for an owner_id.
Effective(rows, owner_id) ==
    LET global == { lower(r.term) : r \in QueryAll(rows, "global", None) }
        include == { lower(r.term) : r \in QueryAll(rows, "custom_include", owner_id) }
        exclude == { lower(r.term) : r \in QueryAll(rows, "custom_exclude", owner_id) }
    IN  IF owner_id = None THEN global ELSE (global \cup include) \ exclude

LexInit ==
    /\ lex_rows \in SUBSET SeedRows
    /\ lex_cache = [k \in CacheKeys |-> NoEntry]
    /\ lex_now = 0
    /\ lex_threaded \in BOOLEAN
    /\ lex_pc = [c \in Clients |-> "Idle"]
    /\ lex_op = [c \in Clients |-> NoOp]
    /\ lex_local = [c \in Clients |-> NoLocal]
    /\ lex_ret = [c \in Clients |-> NoRet]
    /\ lex_calls = 0
    /\ lex_dropped = {}
    /\ lex_seen = [c \in Clients |-> {}]

\* A call may start on a thread that is running none; without threads the
\* process has one thread, and its calls follow one another.
CallAllowed(c) ==
    /\ lex_pc[c] = "Idle"
    /\ lex_threaded \/ c = 1
    /\ lex_calls < MaxCalls

\* The clients inside get_lexicon.
Reading(c) ==
    /\ lex_op[c].name = "get_lexicon"
    /\ lex_pc[c] \notin {"Idle", "Returned", "Raised"}

\* Time passes.
LexTick ==
    /\ lex_now < MaxLexTime
    /\ lex_now' = lex_now + 1
    /\ UNCHANGED <<lex_rows, lex_cache, lex_threaded, lex_pc, lex_op,
                   lex_local, lex_ret, lex_calls, lex_dropped,
                   lex_seen>>
    /\ UNCHANGED notLex

\* get_lexicon(owner_id) is called: cache_key is computed.
GetCall ==
    /\ \E c \in Clients, o \in OwnerIds :
         /\ CallAllowed(c)
         /\ lex_calls' = lex_calls + 1
         /\ lex_pc' = [lex_pc EXCEPT ![c] = "GetCheck"]
         /\ lex_op' = [lex_op EXCEPT ![c] =
                          [name |-> "get_lexicon", term |-> <<>>, type |-> "",
                           owner_id |-> o]]
         /\ lex_seen' = [lex_seen EXCEPT ![c] = {Effective(lex_rows, o)}]
    /\ UNCHANGED <<lex_rows, lex_cache, lex_now, lex_threaded, lex_local,
                   lex_ret, lex_dropped>>
    /\ UNCHANGED notLex

\* if cache_key in self._cache:
GetCheck ==
    /\ \E c \in Clients :
         /\ lex_pc[c] = "GetCheck"
         /\ lex_pc' = [lex_pc EXCEPT ![c] =
                          IF lex_cache[CacheKey(lex_op[c].owner_id)].present
                          THEN "GetCached" ELSE "ReadGlobal"]
    /\ UNCHANGED <<lex_rows, lex_cache, lex_now, lex_threaded, lex_op,
                   lex_local, lex_ret, lex_calls, lex_dropped,
                   lex_seen>>
    /\ UNCHANGED notLex

\* Mutant of GetCached: an entry whose age equals the TTL is still served.
GetCached_ServesAtTTL ==
    /\ \E c \in Clients :
         LET entry == lex_cache[CacheKey(lex_op[c].owner_id)] IN
         /\ lex_pc[c] = "GetCached"
         /\ IF ~entry.present
            THEN /\ lex_pc' = [lex_pc EXCEPT ![c] = "Raised"]
                 /\ lex_ret' = [lex_ret EXCEPT ![c] = RaiseRet("KeyError")]
                 /\ UNCHANGED lex_local
            ELSE IF lex_now - entry.timestamp <= CACHE_TTL
                 THEN /\ lex_pc' = [lex_pc EXCEPT ![c] = "Returned"]
                      /\ lex_ret' = [lex_ret EXCEPT ![c] =
                                        ListRet(entry.terms, "cache")]
                      /\ lex_local' = [lex_local EXCEPT ![c].outdated =
                                          entry.outdated]
                 ELSE /\ lex_pc' = [lex_pc EXCEPT ![c] = "ReadGlobal"]
                      /\ UNCHANGED <<lex_ret, lex_local>>
    /\ UNCHANGED <<lex_rows, lex_cache, lex_now, lex_threaded, lex_op,
                   lex_calls, lex_dropped, lex_seen>>
    /\ UNCHANGED notLex

\* cached_data = self._cache[cache_key]; the entry is returned if it is
\* younger than the TTL.  The subscript raises KeyError if another thread
\* deleted the key after the membership test.
GetCached ==
    /\ \E c \in Clients :
         LET entry == lex_cache[CacheKey(lex_op[c].owner_id)] IN
         /\ lex_pc[c] = "GetCached"
         /\ IF ~entry.present
            THEN /\ lex_pc' = [lex_pc EXCEPT ![c] = "Raised"]
                 /\ lex_ret' = [lex_ret EXCEPT ![c] = RaiseRet("KeyError")]
                 /\ UNCHANGED lex_local
            ELSE IF lex_now - entry.timestamp < CACHE_TTL
                 THEN /\ lex_pc' = [lex_pc EXCEPT ![c] = "Returned"]
                      /\ lex_ret' = [lex_ret EXCEPT ![c] =
                                        ListRet(entry.terms, "cache")]
                      /\ lex_local' = [lex_local EXCEPT ![c].outdated =
                                          entry.outdated]
                 ELSE /\ lex_pc' = [lex_pc EXCEPT ![c] = "ReadGlobal"]
                      /\ UNCHANGED <<lex_ret, lex_local>>
    /\ UNCHANGED <<lex_rows, lex_cache, lex_now, lex_threaded, lex_op,
                   lex_calls, lex_dropped, lex_seen>>
    /\ UNCHANGED notLex

\* terms = set(); the query for type='global', owner_id=None and its loop.
ReadGlobal ==
    /\ \E c \in Clients :
         /\ lex_pc[c] = "ReadGlobal"
         /\ lex_local' = [lex_local EXCEPT ![c] =
                [terms |-> AddAll({}, QueryAll(lex_rows, "global", None)),
                 term_obj |-> NoRow,
                 outdated |-> {}]]
         /\ lex_pc' = [lex_pc EXCEPT ![c] =
                          IF lex_op[c].owner_id # None
                          THEN "ReadInclude" ELSE "Store"]
    /\ UNCHANGED <<lex_rows, lex_cache, lex_now, lex_threaded, lex_op,
                   lex_ret, lex_calls, lex_dropped, lex_seen>>
    /\ UNCHANGED notLex

\* if owner_id: the query for custom_include and its loop.
ReadInclude ==
    /\ \E c \in Clients :
         /\ lex_pc[c] = "ReadInclude"
         /\ lex_local' = [lex_local EXCEPT ![c].terms =
                AddAll(@, QueryAll(lex_rows, "custom_include",
                                   lex_op[c].owner_id))]
         /\ lex_pc' = [lex_pc EXCEPT ![c] = "ReadExclude"]
    /\ UNCHANGED <<lex_rows, lex_cache, lex_now, lex_threaded, lex_op,
                   lex_ret, lex_calls, lex_dropped, lex_seen>>
    /\ UNCHANGED notLex

\* The query for custom_exclude and its loop.
ReadExclude ==
    /\ \E c \in Clients :
         /\ lex_pc[c] = "ReadExclude"
         /\ lex_local' = [lex_local EXCEPT ![c].terms =
                DiscardAll(@, QueryAll(lex_rows, "custom_exclude",
                                       lex_op[c].owner_id))]
         /\ lex_pc' = [lex_pc EXCEPT ![c] = "Store"]
    /\ UNCHANGED <<lex_rows, lex_cache, lex_now, lex_threaded, lex_op,
                   lex_ret, lex_calls, lex_dropped, lex_seen>>
    /\ UNCHANGED notLex

\* result = sorted(list(terms)); the cache entry is written; return result.
GetStore ==
    /\ \E c \in Clients :
         LET sorted_terms == sorted(lex_local[c].terms) IN
         /\ lex_pc[c] = "Store"
         /\ lex_cache' = [lex_cache EXCEPT ![CacheKey(lex_op[c].owner_id)] =
                [present |-> TRUE, terms |-> sorted_terms, timestamp |-> lex_now,
                 outdated |-> lex_local[c].outdated]]
         /\ lex_ret' = [lex_ret EXCEPT ![c] = ListRet(sorted_terms, "storage")]
         /\ lex_pc' = [lex_pc EXCEPT ![c] = "Returned"]
    /\ UNCHANGED <<lex_rows, lex_now, lex_threaded, lex_op, lex_local,
                   lex_calls, lex_dropped, lex_seen>>
    /\ UNCHANGED notLex

\* A write for owner_id changes what the list under key is computed from.
Affects(owner_id, key) == owner_id = None \/ CacheKey(owner_id) = key

\* The cache and the locals once a write for owner_id has committed: the
\* lists read before it are marked.
CacheAfter(owner_id) ==
    [k \in CacheKeys |->
        IF lex_cache[k].present /\ Affects(owner_id, k)
        THEN [lex_cache[k] EXCEPT !.outdated = @ \cup {owner_id}]
        ELSE lex_cache[k]]

\* The positions of get_lexicon at which the rows of a type have been read.
HasRead(type) ==
    CASE type = "global" -> {"ReadInclude", "ReadExclude", "Store"}
      [] type = "custom_include" -> {"ReadExclude", "Store"}
      [] OTHER -> {"Store"}

LocalAfter(owner_id, type) ==
    [c \in Clients |->
        IF /\ lex_op[c].name = "get_lexicon"
           /\ lex_pc[c] \in HasRead(type)
           /\ Affects(owner_id, CacheKey(lex_op[c].owner_id))
        THEN [lex_local[c] EXCEPT !.outdated = @ \cup {owner_id}]
        ELSE lex_local[c]]

\* The effective lexicons seen by the calls of get_lexicon in progress, once
\* storage has become rows.
SeenAfter(rows) ==
    [c \in Clients |->
        IF Reading(c)
        THEN lex_seen[c] \cup {Effective(rows, lex_op[c].owner_id)}
        ELSE lex_seen[c]]

\* add_term(term, owner_id, term_type) is called: the term is normalized and
\* an empty one is refused.
AddCall ==
    /\ \E c \in Clients, term \in TermInputs, s \in Scopes :
         LET term_lower == strip(lower(term)) IN
         /\ CallAllowed(c)
         /\ lex_calls' = lex_calls + 1
         /\ lex_op' = [lex_op EXCEPT ![c] =
                          [name |-> "add_term", term |-> term_lower,
                           type |-> s.type, owner_id |-> s.owner_id]]
         /\ IF term_lower = <<>>
            THEN /\ lex_pc' = [lex_pc EXCEPT ![c] = "Returned"]
                 /\ lex_ret' = [lex_ret EXCEPT ![c] = BoolRet(FALSE)]
            ELSE /\ lex_pc' = [lex_pc EXCEPT ![c] = "AddCheck"]
                 /\ UNCHANGED lex_ret
    /\ UNCHANGED <<lex_rows, lex_cache, lex_now, lex_threaded, lex_local,
                   lex_dropped, lex_seen>>
    /\ UNCHANGED notLex

\* Mutant of AddCheck: finding the term already there empties the cache
\* before False is returned.
AddCheck_DropsCache ==
    /\ \E c \in Clients :
         /\ lex_pc[c] = "AddCheck"
         /\ IF QueryTerm(lex_rows, lex_op[c].term, lex_op[c].type,
                         lex_op[c].owner_id) # {}
            THEN /\ lex_pc' = [lex_pc EXCEPT ![c] = "Returned"]
                 /\ lex_ret' = [lex_ret EXCEPT ![c] = BoolRet(FALSE)]
                 /\ lex_cache' = [k \in CacheKeys |-> NoEntry]
            ELSE /\ lex_pc' = [lex_pc EXCEPT ![c] = "AddCommit"]
                 /\ UNCHANGED <<lex_ret, lex_cache>>
    /\ UNCHANGED <<lex_rows, lex_now, lex_threaded, lex_op,
                   lex_local, lex_calls, lex_dropped, lex_seen>>
    /\ UNCHANGED notLex

\* existing = ...first(); if existing: return False
AddCheck ==
    /\ \E c \in Clients :
         /\ lex_pc[c] = "AddCheck"
         /\ IF QueryTerm(lex_rows, lex_op[c].term, lex_op[c].type,
                         lex_op[c].owner_id) # {}
            THEN /\ lex_pc' = [lex_pc EXCEPT ![c] = "Returned"]
                 /\ lex_ret' = [lex_ret EXCEPT ![c] = BoolRet(FALSE)]
            ELSE /\ lex_pc' = [lex_pc EXCEPT ![c] = "AddCommit"]
                 /\ UNCHANGED lex_ret
    /\ UNCHANGED <<lex_rows, lex_cache, lex_now, lex_threaded, lex_op,
                   lex_local, lex_calls, lex_dropped, lex_seen>>
    /\ UNCHANGED notLex

\* db.session.add(new_term); db.session.commit().  The table's constraint
\* uq_term_type_owner refuses a second row with the same term, type and
\* non-NULL owner_id (NULL owner_ids never conflict), and commit raises.
AddCommit ==
    /\ \E c \in Clients :
         LET op == lex_op[c]
             rows == lex_rows \cup
                       {LexRow(NextId(lex_rows, op.term, op.type, op.owner_id),
                               op.term, op.type, op.owner_id)}
         IN
         /\ lex_pc[c] = "AddCommit"
         /\ IF /\ op.owner_id # None
               /\ QueryTerm(lex_rows, op.term, op.type, op.owner_id) # {}
            THEN /\ lex_pc' = [lex_pc EXCEPT ![c] = "Raised"]
                 /\ lex_ret' = [lex_ret EXCEPT ![c] = RaiseRet("IntegrityError")]
                 /\ UNCHANGED <<lex_rows, lex_seen, lex_cache,
                                lex_local>>
            ELSE /\ lex_rows' = rows
                 /\ lex_cache' = CacheAfter(op.owner_id)
                 /\ lex_local' = LocalAfter(op.owner_id, op.type)
                 /\ lex_seen' = SeenAfter(rows)
                 /\ lex_pc' = [lex_pc EXCEPT ![c] = "InvCheckOwn"]
                 /\ UNCHANGED lex_ret
    /\ UNCHANGED <<lex_now, lex_threaded, lex_op, lex_calls, lex_dropped>>
    /\ UNCHANGED notLex

\* remove_term(term, owner_id, term_type) is called: the term is normalized.
RemoveCall ==
    /\ \E c \in Clients, term \in TermInputs, s \in Scopes :
         /\ CallAllowed(c)
         /\ lex_calls' = lex_calls + 1
         /\ lex_op' = [lex_op EXCEPT ![c] =
                          [name |-> "remove_term", term |-> strip(lower(term)),
                           type |-> s.type, owner_id |-> s.owner_id]]
         /\ lex_pc' = [lex_pc EXCEPT ![c] = "RemoveFind"]
    /\ UNCHANGED <<lex_rows, lex_cache, lex_now, lex_threaded, lex_local,
                   lex_ret, lex_dropped, lex_seen>>
    /\ UNCHANGED notLex

\* term_obj = ...first(); if not term_obj: return False
RemoveFind ==
    /\ \E c \in Clients :
         LET found == QueryTerm(lex_rows, lex_op[c].term, lex_op[c].type,
                                lex_op[c].owner_id)
         IN
         /\ lex_pc[c] = "RemoveFind"
         /\ IF found = {}
            THEN /\ lex_pc' = [lex_pc EXCEPT ![c] = "Returned"]
                 /\ lex_ret' = [lex_ret EXCEPT ![c] = BoolRet(FALSE)]
                 /\ UNCHANGED lex_local
            ELSE /\ \E r \in found :
                      lex_local' = [lex_local EXCEPT ![c].term_obj = r]
                 /\ lex_pc' = [lex_pc EXCEPT ![c] = "RemoveCommit"]
                 /\ UNCHANGED lex_ret
    /\ UNCHANGED <<lex_rows, lex_cache, lex_now, lex_threaded, lex_op,
                   lex_calls, lex_dropped, lex_seen>>
    /\ UNCHANGED notLex

\* db.session.delete(term_obj); db.session.commit()
RemoveCommit ==
    /\ \E c \in Clients :
         LET rows == lex_rows \ {lex_local[c].term_obj} IN
         /\ lex_pc[c] = "RemoveCommit"
         /\ lex_rows' = rows
         /\ lex_cache' = CacheAfter(lex_op[c].owner_id)
         /\ lex_local' = LocalAfter(lex_op[c].owner_id, lex_op[c].type)
         /\ lex_seen' = SeenAfter(rows)
         /\ lex_pc' = [lex_pc EXCEPT ![c] = "InvCheckOwn"]
    /\ UNCHANGED <<lex_now, lex_threaded, lex_op, lex_ret, lex_calls,
                   lex_dropped>>
    /\ UNCHANGED notLex

\* _invalidate_cache(owner_id): if cache_key in self._cache:
InvCheckOwn ==
    /\ \E c \in Clients :
         /\ lex_pc[c] = "InvCheckOwn"
         /\ lex_pc' = [lex_pc EXCEPT ![c] =
                          IF lex_cache[CacheKey(lex_op[c].owner_id)].present
                          THEN "InvDelOwn" ELSE "InvCheckGlobal"]
    /\ UNCHANGED <<lex_rows, lex_cache, lex_now, lex_threaded, lex_op,
                   lex_local, lex_ret, lex_calls, lex_dropped,
                   lex_seen>>
    /\ UNCHANGED notLex

\* del self._cache[cache_key]; KeyError if another thread deleted it first.
InvDelOwn ==
    /\ \E c \in Clients :
         LET key == CacheKey(lex_op[c].owner_id) IN
         /\ lex_pc[c] = "InvDelOwn"
         /\ IF lex_cache[key].present
            THEN /\ lex_cache' = Deleted(lex_cache, key)
                 /\ lex_dropped' = lex_dropped \cup {key}
                 /\ lex_pc' = [lex_pc EXCEPT ![c] = "InvCheckGlobal"]
                 /\ UNCHANGED lex_ret
            ELSE /\ lex_pc' = [lex_pc EXCEPT ![c] = "Raised"]
                 /\ lex_ret' = [lex_ret EXCEPT ![c] = RaiseRet("KeyError")]
                 /\ UNCHANGED <<lex_cache, lex_dropped>>
    /\ UNCHANGED <<lex_rows, lex_now, lex_threaded, lex_op, lex_local,
                   lex_calls, lex_seen>>
    /\ UNCHANGED notLex

\* if owner_id and 'lexicon_global' in self._cache: ... else return True
InvCheckGlobal ==
    /\ \E c \in Clients :
         /\ lex_pc[c] = "InvCheckGlobal"
         /\ IF /\ lex_op[c].owner_id # None
               /\ lex_cache[CacheKey(None)].present
            THEN /\ lex_pc' = [lex_pc EXCEPT ![c] = "InvDelGlobal"]
                 /\ UNCHANGED lex_ret
            ELSE /\ lex_pc' = [lex_pc EXCEPT ![c] = "Returned"]
                 /\ lex_ret' = [lex_ret EXCEPT ![c] = BoolRet(TRUE)]
    /\ UNCHANGED <<lex_rows, lex_cache, lex_now, lex_threaded, lex_op,
                   lex_local, lex_calls, lex_dropped, lex_seen>>
    /\ UNCHANGED notLex

\* del self._cache['lexicon_global']; return True
InvDelGlobal ==
    /\ \E c \in Clients :
         LET key == CacheKey(None) IN
         /\ lex_pc[c] = "InvDelGlobal"
         /\ IF lex_cache[key].present
            THEN /\ lex_cache' = Deleted(lex_cache, key)
                 /\ lex_dropped' = lex_dropped \cup {key}
                 /\ lex_pc' = [lex_pc EXCEPT ![c] = "Returned"]
                 /\ lex_ret' = [lex_ret EXCEPT ![c] = BoolRet(TRUE)]
            ELSE /\ lex_pc' = [lex_pc EXCEPT ![c] = "Raised"]
                 /\ lex_ret' = [lex_ret EXCEPT ![c] = RaiseRet("KeyError")]
                 /\ UNCHANGED <<lex_cache, lex_dropped>>
    /\ UNCHANGED <<lex_rows, lex_now, lex_threaded, lex_op, lex_local,
                   lex_calls, lex_seen>>
    /\ UNCHANGED notLex

\* The caller has the value (or the exception); its thread is free again.
LexReturn ==
    /\ \E c \in Clients :
         /\ lex_pc[c] \in {"Returned", "Raised"}
         /\ lex_pc' = [lex_pc EXCEPT ![c] = "Idle"]
         /\ lex_op' = [lex_op EXCEPT ![c] = NoOp]
         /\ lex_local' = [lex_local EXCEPT ![c] = NoLocal]
         /\ lex_ret' = [lex_ret EXCEPT ![c] = NoRet]
         /\ lex_seen' = [lex_seen EXCEPT ![c] = {}]
    /\ UNCHANGED <<lex_rows, lex_cache, lex_now, lex_threaded, lex_calls,
                   lex_dropped>>
    /\ UNCHANGED notLex

\* The elements of a list.
Range(seq) == { seq[i] : i \in 1..Len(seq) }

\* Client c has just been handed the list of get_lexicon(owner_id).
GotLexicon(c, owner_id) ==
    /\ lex_pc[c] = "Returned"
    /\ lex_op[c].name = "get_lexicon"
    /\ lex_op[c].owner_id = owner_id
    /\ lex_ret[c].kind = "list"

\* Client c has just been handed True by a write for owner_id.
WroteFor(c, owner_id) ==
    /\ lex_pc[c] = "Returned"
    /\ lex_op[c].name \in {"add_term", "remove_term"}
    /\ lex_op[c].owner_id = owner_id
    /\ lex_ret[c] = BoolRet(TRUE)

\* C11: in a sequential history of calls on one owner's Include/Exclude
\* terms (no Global row written since the served list was computed), every
\* get_lexicon(owner) returns the effective lexicon of the storage contents
\* at the time of the call, also when an earlier call populated the cache.
C11_ReadYourWrites ==
    \A c \in Clients, o \in Owners :
        (GotLexicon(c, o) /\ None \notin lex_local[c].outdated)
            => Range(lex_ret[c].terms) = Effective(lex_rows, o)

\* C11 witness: the owner's cache entry was populated, an Include row for
\* "b" was added (deleting the entry), and get_lexicon then returns "b".
C11_Witness ==
    \E c \in Clients :
        /\ GotLexicon(c, "u1")
        /\ CacheKey("u1") \in lex_dropped
        /\ QueryTerm(lex_rows, <<98>>, "custom_include", "u1") # {}
        /\ QueryTerm(lex_rows, <<98>>, "global", None) = {}
        /\ <<98>> \in Range(lex_ret[c].terms)

\* C12: after add_term or remove_term of a Global term has returned True, no
\* owner-keyed cache entry computed before that write remains.
C12_GlobalCascade ==
    \A c \in Clients :
        WroteFor(c, None)
            => \A o \in Owners :
                   ~ /\ lex_cache[CacheKey(o)].present
                     /\ None \in lex_cache[CacheKey(o)].outdated

\* C13: once a get_lexicon(owner) and a concurrent write for the same owner
\* have both returned, the cache holds no entry under the owner's key that
\* was computed from the storage state preceding the write.
C13_NoLostInvalidation ==
    (\A c \in Clients : lex_pc[c] \in {"Idle", "Returned", "Raised"})
        => \A o \in Owners :
               ~ /\ lex_cache[CacheKey(o)].present
                 /\ o \in lex_cache[CacheKey(o)].outdated

\* C14: every list get_lexicon computes from storage equals the effective
\* lexicon of one storage state that existed during the call.
C14_SingleSnapshot ==
    \A c \in Clients, o \in OwnerIds :
        (GotLexicon(c, o) /\ lex_ret[c].source = "storage")
            => Range(lex_ret[c].terms) \in lex_seen[c]

\* C15: get_lexicon(owner) computed from storage is the ascending,
\* duplicate-free list of the lowercased terms of
\* (Global \cup Include(owner)) \ Exclude(owner), and of Global for None.
C15_EffectiveLexicon ==
    \A c \in Clients, o \in OwnerIds :
        (GotLexicon(c, o) /\ lex_ret[c].source = "storage")
            => LET terms == lex_ret[c].terms IN
               /\ \A i \in 1..Len(terms), j \in 1..Len(terms) :
                      i < j => StrLess(terms[i], terms[j])
               /\ \A i \in 1..Len(terms) : lower(terms[i]) = terms[i]
               /\ Range(terms) = Effective(lex_rows, o)
               /\ o = None
                    => Range(terms) =
                          { lower(r.term) : r \in QueryAll(lex_rows, "global", None) }

\* C15 witness: a list of two terms for an owner one of whose Exclude rows
\* removes a Global term.
C15_Witness ==
    \E c \in Clients :
        /\ GotLexicon(c, "u1")
        /\ lex_ret[c].source = "storage"
        /\ Len(lex_ret[c].terms) >= 2
        /\ \E r \in QueryAll(lex_rows, "custom_exclude", "u1") :
               QueryTerm(lex_rows, r.term, "global", None) # {}

\* C24: whatever the sequence and interleaving of add_term calls, two calls
\* with identical arguments racing past the existence check included,
\* storage holds at most one row per (normalized term, type, owner_id).
C24_OneRowPerKey ==
    \A r1, r2 \in lex_rows :
        (r1.term = r2.term /\ r1.type = r2.type /\ r1.owner_id = r2.owner_id)
            => r1 = r2

\* Client c takes the step that hands it False from add_term or remove_term.
ReturnsFalse(c) ==
    /\ lex_op'[c].name \in {"add_term", "remove_term"}
    /\ lex_pc[c] # "Returned"
    /\ lex_pc'[c] = "Returned"
    /\ lex_ret'[c] = BoolRet(FALSE)

\* Client c takes the step of add_term or remove_term before its lookup:
\* the call is entered and the text normalized.
EntersLookup(c) ==
    /\ lex_pc[c] = "Idle"
    /\ lex_pc'[c] \in {"AddCheck", "RemoveFind"}

C26_CacheServedWhenFresh ==
    [][\A c \in Clients :
          (/\ lex_op[c].name = "get_lexicon"
           /\ lex_pc[c] # "Returned"
           /\ lex_pc'[c] = "Returned")
              => LET key == CacheKey(lex_op[c].owner_id)
                     entry == lex_cache[key]
                 IN  IF /\ entry.present
                        /\ lex_now - entry.timestamp < CACHE_TTL
                     THEN /\ lex_pc[c] = "GetCached"
                          /\ lex_ret'[c] = ListRet(entry.terms, "cache")
                          /\ lex_cache' = lex_cache
                     ELSE /\ lex_ret'[c].source = "storage"
                          /\ Range(lex_ret'[c].terms) =
                                 Effective(lex_rows, lex_op[c].owner_id)
                          /\ lex_cache'[key].present
                          /\ lex_cache'[key].terms = lex_ret'[c].terms
                          /\ lex_cache'[key].timestamp = lex_now]_vars

\* C26 witness: a later call of get_lexicon('u1') has been served from the
\* cache.
C26_Witness ==
    /\ GotLexicon(1, "u1")
    /\ lex_calls >= 2
    /\ lex_ret[1].source = "cache"
    /\ lex_ret[1].terms # <<>>

MaxBundle == 2

SuggestTerms == {"fast", "secure"}

SuggestContexts == {"The system is fast.", "<script>"}

\* A text is the sequence of the pieces it is put together from, so that a
\* template and the term it names stay apart.  These are the texts shorter
\* than 5 characters, and among them the blank ones.
ShortTexts == { <<>>, <<" ">>, <<"ok">> }

BlankTexts == { <<>>, <<" ">> }

\* _get_fallback_suggestions(term)
get_fallback_suggestions(term) ==
    << <<"Define specific metrics or thresholds for '", term, "'">>,
       <<"Specify measurable criteria for '", term, "'">>,
       <<"Provide quantifiable requirements for '", term, "'">> >>

\* f"What specific, measurable criteria do you mean by '{term}'?"
CriteriaPromptFor(term) ==
    <<"What specific, measurable criteria do you mean by '", term, "'?">>

GenericCriteriaPrompt ==
    <<"What specific, measurable criteria do you mean by this term?">>

BatchGenericPrompt == <<"What specific criteria do you mean?">>

\* f"What specific criteria do you mean by '{term}'?"
ChunkPromptFor(term) == <<"What specific criteria do you mean by '", term, "'?">>

Bundle(suggestions, clarification_prompt) ==
    [suggestions |-> suggestions, clarification_prompt |-> clarification_prompt]

\* JSON values, named; a container holds the names of its members.
JValue(t, text, items, suggestions, clarification_prompt) ==
    [t |-> t, text |-> text, items |-> items, suggestions |-> suggestions,
     clarification_prompt |-> clarification_prompt]

JStr(text) == JValue("str", text, <<>>, "", "")

JArray(items) == JValue("array", <<>>, items, "", "")

\* An object with the keys suggestions and clarification_prompt; "ABSENT"
\* stands for a key the object does not have.
JObject(suggestions, clarification_prompt) ==
    JValue("object", <<>>, <<>>, suggestions, clarification_prompt)

JsonValue(name) ==
    CASE name = "S1" -> JStr(<<"response time under 200ms">>)
      [] name = "S2" -> JStr(<<"load time under 2 seconds">>)
      [] name = "S3" -> JStr(<<"95th percentile latency under 1 second">>)
      [] name = "S4" -> JStr(<<"throughput of 500 requests per second">>)
      [] name = "S5" -> JStr(<<"startup within 3 seconds">>)
      [] name = "S6" -> JStr(<<"page render within 100ms">>)
      [] name = "SHORT" -> JStr(<<"ok">>)
      [] name = "BLANK" -> JStr(<<" ">>)
      [] name = "EMPTY" -> JStr(<<>>)
      [] name = "Q" -> JStr(<<"What response time do you consider fast?">>)
      [] name = "NUM" -> JValue("num", <<>>, <<>>, "", "")
      [] name = "LIST0" -> JArray(<<>>)
      [] name = "LIST1" -> JArray(<<"S1">>)
      [] name = "LIST2" -> JArray(<<"S1", "S2">>)
      [] name = "LIST3" -> JArray(<<"S1", "S2", "S3">>)
      [] name = "LIST6" -> JArray(<<"S1", "S2", "S3", "S4", "S5", "S6">>)
      [] name = "MIXED" -> JArray(<<"S1", "NUM", "S2">>)
      [] name = "SHORTS" -> JArray(<<"S1", "SHORT">>)
      [] name = "FULL" -> JObject("LIST3", "Q")
      [] name = "TWO" -> JObject("LIST2", "Q")
      [] name = "SIX" -> JObject("LIST6", "Q")
      [] name = "ONE" -> JObject("LIST1", "Q")
      [] name = "NOSUGG" -> JObject("ABSENT", "Q")
      [] name = "NOPROMPT" -> JObject("LIST3", "ABSENT")
      [] name = "BLANKPROMPT" -> JObject("MIXED", "BLANK")
      [] name = "DICTSUGG" -> JObject("FULL", "Q")
      [] name = "B_EMPTY" -> JArray(<<>>)
      [] name = "B_FULL" -> JArray(<<"FULL">>)
      [] name = "B_SIX_NOPROMPT" -> JArray(<<"SIX", "NOPROMPT">>)
      [] name = "B_ONE_TWO_FULL" -> JArray(<<"ONE", "TWO", "FULL">>)
      [] name = "B_STR_FULL" -> JArray(<<"S1", "FULL">>)
      [] OTHER -> JValue("null", <<>>, <<>>, "", "")

SgDocuments ==
    { "S1", "LIST1", "LIST2", "LIST3", "LIST6", "MIXED", "SHORTS",
      "FULL", "TWO", "SIX", "ONE", "NOSUGG", "NOPROMPT", "BLANKPROMPT",
      "DICTSUGG", "B_EMPTY", "B_FULL", "B_SIX_NOPROMPT", "B_ONE_TWO_FULL",
      "B_STR_FULL" }

\* Replies of the chain, as sequences of lines ("FENCE" starts with ```).
SuggestionReplies ==
    { <<"LIST3">>, <<"LIST2">>, <<"LIST6">>, <<"LIST1">>, <<"MIXED">>,
      <<"SHORTS">>, <<"FENCE", "LIST3", "FENCE">>, <<"FULL">>, <<"prose">>, <<>> }

CompleteReplies ==
    { <<"FULL">>, <<"TWO">>, <<"SIX">>, <<"ONE">>, <<"NOSUGG">>, <<"NOPROMPT">>,
      <<"BLANKPROMPT">>, <<"DICTSUGG">>, <<"FENCE", "FULL", "FENCE">>,
      <<"LIST3">>, <<"prose">> }

BatchCompleteReplies ==
    { <<"B_EMPTY">>, <<"B_FULL">>, <<"B_SIX_NOPROMPT">>, <<"B_ONE_TWO_FULL">>,
      <<"B_STR_FULL">>, <<"FENCE", "B_SIX_NOPROMPT", "FENCE">>, <<"FULL">>,
      <<"prose">> }

\* json.loads on the text of a reply.
SgJsonLoads(text) ==
    IF Len(text) = 1 /\ text[1] \in SgDocuments
    THEN Returns(text[1])
    ELSE Raises("JSONDecodeError")

\* A member of a suggestions list the validator keeps: a string of at
\* least 5 characters.
IsUsable(name) ==
    JsonValue(name).t = "str" /\ JsonValue(name).text \notin ShortTexts

\* LLMResponseValidator.validate_suggestions: ValueError unless the value is
\* a list with at least two usable members; at most five are returned.
validate_suggestions(name) ==
    LET value == JsonValue(name)
        kept == SelectSeq(value.items, IsUsable)
    IN  IF value.t # "array" \/ Len(kept) < 2
        THEN Raises("ValueError")
        ELSE Returns([i \in 1..Min(5, Len(kept)) |-> JsonValue(kept[i]).text])

\* LLMResponseValidator.validate_clarification_prompt: ValueError unless the
\* value is a string that is not blank.
validate_clarification_prompt(name) ==
    LET value == JsonValue(name)
    IN  IF value.t # "str" \/ value.text \in BlankTexts
        THEN Raises("ValueError")
        ELSE Returns(value.text)

\* data.get(key, default)
DictGet(member, default) == IF member = "ABSENT" THEN default ELSE member

\* A slice that keeps the whole list.
FirstThree_All(list) == list

\* list[:3]
FirstThree(list) == SubSeq(list, 1, Min(3, Len(list)))

\* SuggestionGenerator._parse_suggestions_response
parse_suggestions_response(response) ==
    LET loaded == SgJsonLoads(ExtractJson(response))
        validated == IF loaded.raised THEN loaded
                     ELSE validate_suggestions(loaded.value)
    IN  IF validated.raised
        THEN get_fallback_suggestions("")
        ELSE FirstThree(validated.value)

\* The dictionary built from one object of a reply: each field is validated
\* and replaced by its fallback on ValueError.
BundleOf(data, fallback_prompt) ==
    LET vs == validate_suggestions(DictGet(data.suggestions, "LIST0"))
        vp == validate_clarification_prompt(
                  DictGet(data.clarification_prompt, "EMPTY"))
    IN  Bundle(FirstThree(IF vs.raised THEN get_fallback_suggestions("")
                          ELSE vs.value),
               IF vp.raised THEN fallback_prompt ELSE vp.value)

\* SuggestionGenerator._parse_complete_analysis_response; data.get raises
\* AttributeError on a value that is no object, which the outer handler
\* turns into the fallback dictionary like every other exception.
parse_complete_analysis_response(response) ==
    LET loaded == SgJsonLoads(ExtractJson(response))
    IN  IF loaded.raised \/ JsonValue(loaded.value).t # "object"
        THEN Bundle(get_fallback_suggestions(""), GenericCriteriaPrompt)
        ELSE BundleOf(JsonValue(loaded.value), GenericCriteriaPrompt)

\* SuggestionGenerator._parse_batch_complete_analysis
parse_batch_complete_analysis(response, expected_count) ==
    LET loaded == SgJsonLoads(ExtractJson(response))
        fallback == Bundle(get_fallback_suggestions(""), BatchGenericPrompt)
    IN  IF \/ loaded.raised
           \/ JsonValue(loaded.value).t # "array"
           \/ \E i \in 1..Len(JsonValue(loaded.value).items) :
                  JsonValue(JsonValue(loaded.value).items[i]).t # "object"
        THEN [i \in 1..expected_count |-> fallback]
        ELSE LET items == JsonValue(loaded.value).items
                 results == [i \in 1..Len(items) |->
                                BundleOf(JsonValue(items[i]), BatchGenericPrompt)]
             IN  SubSeq(PadTo(results, expected_count, fallback),
                        1, expected_count)

\* The try block of generate_complete_analysis for one outcome of
\* chain.invoke, Returns(reply) or Raises(exc).
complete_analysis(term, outcome) ==
    IF outcome.raised
    THEN Bundle(get_fallback_suggestions(term), CriteriaPromptFor(term))
    ELSE parse_complete_analysis_response(outcome.value)

\* generate_suggestions returns a list; it is kept as a bundle without a
\* clarification prompt.
SuggestionsOnly(suggestions) == Bundle(suggestions, <<>>)

SgApis == {"generate_suggestions", "generate_complete_analysis",
           "batch_generate_optimized"}

\* The argument lists of a call of the method.
SgTermLists(api) ==
    IF api = "batch_generate_optimized"
    THEN UNION { [1..n -> SuggestTerms] : n \in 1..MaxBundle }
    ELSE { <<t>> : t \in SuggestTerms }

SgReplies(api) ==
    CASE api = "generate_suggestions" -> SuggestionReplies
      [] api = "generate_complete_analysis" -> CompleteReplies
      [] OTHER -> BatchCompleteReplies

SgInit ==
    /\ sg_pc = "Idle"
    /\ sg_api = "none"
    /\ sg_terms = <<>>
    /\ sg_context = ""
    /\ sg_calls = 0
    /\ sg_result = <<>>

\* A method is called.  generate_suggestions sanitizes its inputs first and
\* returns the fallback for the term when the sanitizer raises ValueError;
\* the other two build their prompt and go on to the model call.
SgCall ==
    /\ sg_pc = "Idle"
    /\ \E api \in SgApis, context \in SuggestContexts :
       \E terms \in SgTermLists(api) :
         /\ sg_api' = api
         /\ sg_terms' = terms
         /\ sg_context' = context
         /\ IF /\ api = "generate_suggestions"
               /\ SanitizerRejects(terms[1]) \/ SanitizerRejects(context)
            THEN /\ sg_pc' = "Returned"
                 /\ sg_result' =
                       <<SuggestionsOnly(get_fallback_suggestions(terms[1]))>>
            ELSE /\ sg_pc' = "Invoking"
                 /\ UNCHANGED sg_result
    /\ UNCHANGED sg_calls
    /\ UNCHANGED notSg

\* Mutant of SgReply: a reply that does not parse is asked for again.
SgReply_AsksAgain ==
    /\ sg_pc = "Invoking"
    /\ \E reply \in SgReplies(sg_api) :
         IF SgJsonLoads(ExtractJson(reply)).raised
         THEN /\ sg_pc' = "Invoking"
              /\ UNCHANGED sg_result
         ELSE /\ sg_pc' = "Returned"
              /\ sg_result' =
                    CASE sg_api = "generate_suggestions" ->
                            <<SuggestionsOnly(parse_suggestions_response(reply))>>
                      [] sg_api = "generate_complete_analysis" ->
                            <<complete_analysis(sg_terms[1], Returns(reply))>>
                      [] OTHER ->
                            parse_batch_complete_analysis(reply, Len(sg_terms))
    /\ sg_calls' = sg_calls + 1
    /\ UNCHANGED <<sg_api, sg_terms, sg_context>>
    /\ UNCHANGED notSg

\* chain.invoke returns a reply, which the method's parser turns into the
\* value returned.
SgReply ==
    /\ sg_pc = "Invoking"
    /\ \E reply \in SgReplies(sg_api) :
         sg_result' =
            CASE sg_api = "generate_suggestions" ->
                    <<SuggestionsOnly(parse_suggestions_response(reply))>>
              [] sg_api = "generate_complete_analysis" ->
                    <<complete_analysis(sg_terms[1], Returns(reply))>>
              [] OTHER ->
                    parse_batch_complete_analysis(reply, Len(sg_terms))
    /\ sg_calls' = sg_calls + 1
    /\ sg_pc' = "Returned"
    /\ UNCHANGED <<sg_api, sg_terms, sg_context>>
    /\ UNCHANGED notSg

\* chain.invoke raises: the single-term methods return the fallback for the
\* term, the batch method goes on to _fallback_individual_generate.
SgInvokeRaises ==
    /\ sg_pc = "Invoking"
    /\ sg_calls' = sg_calls + 1
    /\ CASE sg_api = "generate_suggestions" ->
              /\ sg_result' =
                    <<SuggestionsOnly(get_fallback_suggestions(sg_terms[1]))>>
              /\ sg_pc' = "Returned"
         [] sg_api = "generate_complete_analysis" ->
              /\ sg_result' =
                    <<complete_analysis(sg_terms[1], Raises("Exception"))>>
              /\ sg_pc' = "Returned"
         [] OTHER ->
              /\ sg_result' = <<>>
              /\ sg_pc' = "Individual"
    /\ UNCHANGED <<sg_api, sg_terms, sg_context>>
    /\ UNCHANGED notSg

\* One iteration of the loop of _fallback_individual_generate:
\* generate_complete_analysis for the next term, whose model call returns a
\* reply or raises.
SgIndividual ==
    /\ sg_pc = "Individual"
    /\ \E outcome \in { Returns(r) : r \in CompleteReplies }
                         \cup {Raises("Exception")} :
         sg_result' = Append(sg_result,
                             complete_analysis(sg_terms[Len(sg_result) + 1],
                                               outcome))
    /\ sg_calls' = sg_calls + 1
    /\ sg_pc' = IF Len(sg_result) + 1 = Len(sg_terms)
                THEN "Returned" ELSE "Individual"
    /\ UNCHANGED <<sg_api, sg_terms, sg_context>>
    /\ UNCHANGED notSg

\* _batch_generate_optimized runs as a chunk worker and raises before its
\* try block: _parallel_batch_generate fills the chunk's positions with the
\* fallback for each term.
SgWorkerRaises ==
    /\ sg_pc = "Invoking"
    /\ sg_api = "batch_generate_optimized"
    /\ sg_result' = [i \in 1..Len(sg_terms) |->
                        Bundle(get_fallback_suggestions(sg_terms[i]),
                               ChunkPromptFor(sg_terms[i]))]
    /\ sg_pc' = "Returned"
    /\ UNCHANGED <<sg_api, sg_terms, sg_context, sg_calls>>
    /\ UNCHANGED notSg

\* The suggestion lists that are fallback templates, for whatever term.
IsFallback(suggestions) ==
    \E t \in SuggestTerms \cup {""} : suggestions = get_fallback_suggestions(t)

C17_FallbackNamesTerm ==
    sg_pc = "Returned"
        => \A i \in 1..Len(sg_result) :
               IsFallback(sg_result[i].suggestions)
                   => sg_result[i].suggestions =
                         get_fallback_suggestions(sg_terms[i])

\* C31: generate_complete_analysis makes exactly one model call per
\* invocation whatever the outcome (valid reply, invalid reply, exception),
\* never a second one, and returns the suggestions and the clarification
\* prompt from that call or from the fallback.
C31_OneCallPerAnalysis ==
    sg_api = "generate_complete_analysis"
        => /\ sg_calls <= 1
           /\ sg_pc = "Invoking" => sg_calls = 0
           /\ sg_pc = "Returned"
                 => /\ sg_calls = 1
                    /\ Len(sg_result) = 1
                    /\ Len(sg_result[1].suggestions) > 0
                    /\ sg_result[1].clarification_prompt # <<>>

\* C31 witness: the one reply was no JSON and the fallback bundle was
\* returned after that single call.
C31_Witness ==
    /\ sg_pc = "Returned"
    /\ sg_api = "generate_complete_analysis"
    /\ sg_calls = 1
    /\ sg_result = <<Bundle(get_fallback_suggestions(""), GenericCriteriaPrompt)>>

\* The lexicon store before its first call in a process with an empty table.
LexParked ==
    /\ LexInit
    /\ lex_rows = {}
    /\ lex_threaded = FALSE


(***************************************************************************)
(* Part 7.  AmbiguityDetector: analyze_text and _lexicon_scan              *)
(*          (app/ambiguity_detector.py)                                    *)
(*                                                                         *)
(* A text is a sequence of code points, as the lexicon terms of Part 5     *)
(* are.  Positions are Python's: 0-based offsets, a match covering         *)
(* text[position_start:position_end].                                      *)
(***************************************************************************)

\* Longest generated text.
MaxTextLen == 4

\* f F x - space . newline
ScanAlphabet == {102, 70, 120, 45, 32, 46, 10}

\* "a fast-track, not fast."
FastTrackText ==
    <<97, 32, 102, 97, 115, 116, 45, 116, 114, 97, 99, 107, 44, 32, 110,
      111, 116, 32, 102, 97, 115, 116, 46>>

\* "breakfast is fast"
BreakfastText ==
    <<98, 114, 101, 97, 107, 102, 97, 115, 116, 32, 105, 115, 32, 102, 97,
      115, 116>>

\* "fast"
FastTerm == <<102, 97, 115, 116>>

\* The texts handed to analyze_text.
ScanTexts ==
    UNION { [1..n -> ScanAlphabet] : n \in 0..MaxTextLen }
        \cup {FastTrackText, BreakfastText}

\* What get_lexicon hands to the scan: sorted lists of lowercase terms.
\* [], ['f'], ['f', 'x'], ['f', 'f-x'], ['fast'], ['.x'].
ScanLexicons ==
    { <<>>, << <<102>> >>, << <<102>>, <<120>> >>,
      << <<102>>, <<102, 45, 120>> >>, <<FastTerm>>, << <<46, 120>> >> }

\* \w of a str pattern, on the code points below 128: [a-zA-Z0-9_].
IsWordChar(ch) == ch \in (48..57) \cup (65..90) \cup (97..122) \cup {95}

\* The character at 1-based index i is a word character; outside the text
\* there is none.
IsWordAt(text, i) == i \in 1..Len(text) /\ IsWordChar(text[i])

\* \b at offset pos: exactly one of the characters on its two sides is a
\* word character.
WordBoundary(text, pos) == IsWordAt(text, pos) # IsWordAt(text, pos + 1)

\* r'\b' + re.escape(term) + r'\b' under re.IGNORECASE matches at pos.
MatchAt(text, term, pos) ==
    /\ pos + Len(term) <= Len(text)
    /\ WordBoundary(text, pos)
    /\ lower(SubSeq(text, pos + 1, pos + Len(term))) = lower(term)
    /\ WordBoundary(text, pos + Len(term))

\* re.finditer(pattern, text, re.IGNORECASE): the non-overlapping matches
\* from left to right, searched from offset pos on.
RECURSIVE finditer(_, _, _)
finditer(term, text, pos) ==
    IF pos + Len(term) > Len(text)
    THEN <<>>
    ELSE IF MatchAt(text, term, pos)
         THEN <<[start |-> pos, end |-> pos + Len(term)]>>
                  \o finditer(term, text, pos + Len(term))
         ELSE finditer(term, text, pos + 1)

\* [.!?\n]
Terminators == {46, 33, 63, 10}

\* The offset of the first character at or after pos that is (stop = TRUE)
\* or is not (stop = FALSE) a terminator; Len(text) when there is none.
RECURSIVE RunEnd(_, _, _)
RunEnd(text, pos, stop) ==
    IF pos >= Len(text)
    THEN Len(text)
    ELSE IF (text[pos + 1] \in Terminators) = stop
         THEN pos
         ELSE RunEnd(text, pos + 1, stop)

\* re.finditer(r'[^.!?\n]+[.!?\n]+', text): a maximal run of
\* non-terminators and the terminators that follow it.
RECURSIVE SentenceMatches(_, _)
SentenceMatches(text, pos) ==
    IF pos >= Len(text)
    THEN <<>>
    ELSE IF text[pos + 1] \in Terminators
         THEN SentenceMatches(text, pos + 1)
         ELSE LET body_end == RunEnd(text, pos, TRUE)
              IN  IF body_end = Len(text)
                  THEN <<>>
                  ELSE LET match_end == RunEnd(text, body_end, FALSE)
                       IN  <<[start |-> pos, end |-> match_end]>>
                               \o SentenceMatches(text, match_end)

\* The tuple (sentence, start_pos, end_pos).
Sentence(text, start, end) ==
    [sentence |-> strip(SubSeq(text, start + 1, end)),
     start |-> start, end |-> end]

\* Mutant of segment_sentences: the text behind the last terminator is
\* left out.
segment_sentences_NoRemainder(text) ==
    LET matches == SentenceMatches(text, 0)
        NotBlank(m) == strip(SubSeq(text, m.start + 1, m.end)) # <<>>
        kept == SelectSeq(matches, NotBlank)
    IN  [i \in 1..Len(kept) |-> Sentence(text, kept[i].start, kept[i].end)]

\* _segment_sentences
segment_sentences(text) ==
    LET matches == SentenceMatches(text, 0)
        NotBlank(m) == strip(SubSeq(text, m.start + 1, m.end)) # <<>>
        kept == SelectSeq(matches, NotBlank)
        sentences == [i \in 1..Len(kept) |->
                         Sentence(text, kept[i].start, kept[i].end)]
    IN  IF sentences # <<>>
        THEN LET last_end == sentences[Len(sentences)].end
             IN  IF /\ last_end < Len(text)
                    /\ strip(SubSeq(text, last_end + 1, Len(text))) # <<>>
                 THEN Append(sentences,
                             Sentence(text, last_end, Len(text)))
                 ELSE sentences
        ELSE IF strip(text) # <<>>
             THEN <<Sentence(text, 0, Len(text))>>
             ELSE <<>>

\* _find_sentence_for_position
find_sentence_for_position(position, sentences) ==
    LET holding == { i \in 1..Len(sentences) :
                        /\ sentences[i].start <= position
                        /\ position < sentences[i].end }
    IN  IF holding # {}
        THEN sentences[CHOOSE i \in holding :
                           \A j \in holding : i <= j].sentence
        ELSE IF sentences # <<>> THEN sentences[1].sentence ELSE <<>>

\* The dictionary appended to flagged_terms for one match.
Flagged(text, m, sentences) ==
    [term |-> SubSeq(text, m.start + 1, m.end),
     position_start |-> m.start,
     position_end |-> m.end,
     sentence_context |-> find_sentence_for_position(m.start, sentences)]

\* The loop over lexicon_terms, from the i-th term on.
RECURSIVE ScanTerms(_, _, _, _)
ScanTerms(text, lexicon_terms, sentences, i) ==
    IF i > Len(lexicon_terms)
    THEN <<>>
    ELSE LET matches == finditer(lexicon_terms[i], text, 0)
         IN  [k \in 1..Len(matches) |->
                 Flagged(text, matches[k], sentences)]
                 \o ScanTerms(text, lexicon_terms, sentences, i + 1)

\* list.sort(key=position_start): stable, so that an element goes behind
\* the elements before it that start no later.
RECURSIVE sort_by_position(_)
sort_by_position(flagged) ==
    IF flagged = <<>>
    THEN <<>>
    ELSE LET head == sort_by_position(SubSeq(flagged, 1, Len(flagged) - 1))
             x == flagged[Len(flagged)]
             k == Cardinality({ i \in 1..Len(head) :
                      head[i].position_start <= x.position_start })
         IN  SubSeq(head, 1, k) \o <<x>> \o SubSeq(head, k + 1, Len(head))

\* Mutant of lexicon_scan: the list is returned as the loop built it, term
\* by term.
lexicon_scan_Unsorted(text, lexicon_terms) ==
    IF lexicon_terms = <<>>
    THEN <<>>
    ELSE ScanTerms(text, lexicon_terms, segment_sentences(text), 1)

\* _lexicon_scan, given what get_lexicon returned
lexicon_scan(text, lexicon_terms) ==
    IF lexicon_terms = <<>>
    THEN <<>>
    ELSE sort_by_position(
             ScanTerms(text, lexicon_terms, segment_sentences(text), 1))

ScanInit ==
    /\ sc_pc = "Idle"
    /\ sc_text \in ScanTexts
    /\ sc_lexicon \in ScanLexicons
    /\ sc_flagged = <<>>
    /\ sc_runs = 0
    /\ sc_first = <<>>

\* analyze_text with an empty or blank text: nothing is scanned.
AnalyzeBlank ==
    /\ sc_pc = "Idle"
    /\ strip(sc_text) = <<>>
    /\ sc_pc' = "Returned"
    /\ sc_flagged' = <<>>
    /\ sc_runs' = sc_runs + 1
    /\ UNCHANGED <<sc_text, sc_lexicon, sc_first>>
    /\ UNCHANGED notScan

\* The orders in which a sort by position_start that is not stable may
\* leave the list: any order of the elements that ascends by start offset.
TieOrders(flagged) ==
    { [i \in 1..Len(flagged) |-> flagged[perm[i]]] :
         perm \in { q \in Permutations(1..Len(flagged)) :
                      \A i, j \in 1..Len(flagged) :
                         i < j => flagged[q[i]].position_start
                                     <= flagged[q[j]].position_start } }

\* Mutant of AnalyzeText: the sort leaves occurrences that start at the same
\* offset in an order of its choosing.
AnalyzeText_TiesAnyOrder ==
    /\ sc_pc = "Idle"
    /\ strip(sc_text) # <<>>
    /\ sc_pc' = "Returned"
    /\ sc_flagged' \in TieOrders(lexicon_scan(sc_text, sc_lexicon))
    /\ sc_runs' = sc_runs + 1
    /\ UNCHANGED <<sc_text, sc_lexicon, sc_first>>
    /\ UNCHANGED notScan

\* analyze_text: the lexicon scan of the text.
AnalyzeText ==
    /\ sc_pc = "Idle"
    /\ strip(sc_text) # <<>>
    /\ sc_pc' = "Returned"
    /\ sc_flagged' = lexicon_scan(sc_text, sc_lexicon)
    /\ sc_runs' = sc_runs + 1
    /\ UNCHANGED <<sc_text, sc_lexicon, sc_first>>
    /\ UNCHANGED notScan

\* The caller keeps what the first call returned and calls analyze_text
\* again with the same text, the lexicon being the same.
AnalyzeAgain ==
    /\ sc_pc = "Returned"
    /\ sc_runs = 1
    /\ sc_first' = sc_flagged
    /\ sc_pc' = "Idle"
    /\ UNCHANGED <<sc_text, sc_lexicon, sc_flagged, sc_runs>>
    /\ UNCHANGED notScan

\* The detector before a text is handed to it.
ScanParked ==
    /\ ScanInit
    /\ sc_text = <<>>
    /\ sc_lexicon = <<>>

\* The occurrence is part of a longer word: a word character touches it.
Embedded(text, f) ==
    \/ IsWordAt(text, f.position_start)
    \/ IsWordAt(text, f.position_end + 1)

\* The occurrence is joined by a hyphen into a compound.
HyphenJoined(text, f) ==
    \/ f.position_start >= 1 /\ text[f.position_start] = 45
    \/ f.position_end < Len(text) /\ text[f.position_end + 1] = 45

\* C18: a lexicon term is matched only as a whole word: no reported
\* occurrence is embedded in a longer word or joined by a hyphen into a
\* compound, and scanning "a fast-track, not fast." with the lexicon
\* {fast} yields exactly one occurrence.
C18_WholeWordsOnly ==
    sc_pc = "Returned"
        => /\ \A i \in 1..Len(sc_flagged) :
                  /\ ~Embedded(sc_text, sc_flagged[i])
                  /\ ~HyphenJoined(sc_text, sc_flagged[i])
           /\ (sc_text = FastTrackText /\ sc_lexicon = <<FastTerm>>)
                  => Len(sc_flagged) = 1

\* The segmented sentences whose span [start, end) holds the offset.
SentencesHolding(text, position) ==
    LET sentences == segment_sentences(text)
    IN  { k \in 1..Len(sentences) :
            /\ sentences[k].start <= position
            /\ position < sentences[k].end }

\* C33: for every match, exactly one segmented sentence span holds the
\* match's start offset, and the occurrence's sentence_context is that
\* sentence, trimmed; the first-sentence / empty-string fallback is never
\* what a match gets.
C33_OneSentencePerMatch ==
    sc_pc = "Returned"
        => \A i \in 1..Len(sc_flagged) :
              LET holding ==
                      SentencesHolding(sc_text, sc_flagged[i].position_start)
              IN  /\ Cardinality(holding) = 1
                  /\ \A k \in holding :
                        LET s == segment_sentences(sc_text)[k]
                        IN  sc_flagged[i].sentence_context =
                               strip(SubSeq(sc_text, s.start + 1, s.end))

\* C33 witness: in " \nx." the blank first sentence is dropped and the
\* match of x lies in the second, which is the first of the list.
C33_Witness ==
    /\ sc_pc = "Returned"
    /\ sc_text = <<32, 10, 120, 46>>
    /\ Len(sc_flagged) = 1
    /\ sc_flagged[1].position_start = 2
    /\ sc_flagged[1].sentence_context = <<120, 46>>
    /\ segment_sentences(sc_text) = <<Sentence(sc_text, 2, 4)>>

\* C22: the occurrences returned by the scan are ordered by start offset
\* ascending, and each has 0 <= position_start < position_end <= len(text),
\* text[position_start:position_end] equal to the reported term, which
\* equals some lexicon term ignoring case.
C22_OccurrencesWellFormed ==
    sc_pc = "Returned"
        => /\ \A i \in 1..Len(sc_flagged) :
                  LET f == sc_flagged[i]
                  IN  /\ 0 <= f.position_start
                      /\ f.position_start < f.position_end
                      /\ f.position_end <= Len(sc_text)
                      /\ SubSeq(sc_text, f.position_start + 1,
                                f.position_end) = f.term
                      /\ \E k \in 1..Len(sc_lexicon) :
                             lower(f.term) = lower(sc_lexicon[k])
           /\ \A i, j \in 1..Len(sc_flagged) :
                  i < j => sc_flagged[i].position_start
                              <= sc_flagged[j].position_start

\* C22 witness: "x F" scanned with ['f', 'x']: the loop finds F at 2 before
\* x at 0, and the list returned starts with x.
C22_Witness ==
    /\ sc_pc = "Returned"
    /\ sc_text = <<120, 32, 70>>
    /\ sc_lexicon = << <<102>>, <<120>> >>
    /\ Len(sc_flagged) = 2
    /\ sc_flagged[1].term = <<120>>
    /\ sc_flagged[2].term = <<70>>

RagMaxRetries == 2

\* The two callers: generate_document_requirements(document_id) and
\* generate_project_summary().
RagCallers ==
    { [llm_prompt_func |-> "get_requirements_generation_prompt",
       validation_model |-> "GeneratedRequirements",
       document_id |-> d, query |-> "DEFAULT_REQUIREMENTS_QUERY"]
          : d \in {1, 2} }
    \cup
    { [llm_prompt_func |-> "get_summary_generation_prompt",
       validation_model |-> "MeetingSummary",
       document_id |-> None, query |-> None] }

NoCaller ==
    [llm_prompt_func |-> "none", validation_model |-> "none",
     document_id |-> None, query |-> None]

\* str(e) of a ValidationError or JSONDecodeError.
ValidationErrors ==
    { <<"x">>, <<"{", "x", "}">>, <<"}", "{">>, <<"x", "{", "{">> }

\* Exceptions of chain.invoke: retrieval or the model call failed.
InvokeErrors == {"APIConnectionError", "RateLimitError"}

\* Instances a reply can validate to: one with every list empty, one not.
RagEmptyDefault(validation_model) == [model |-> validation_model, items |-> 0]

ValidatedData(validation_model) ==
    { [model |-> validation_model, items |-> n] : n \in {0, 1} }

\* error_message and what a prompt shows of it: None, or a string.
NoMessage == [is_none |-> TRUE, text |-> <<>>]

Message(text) == [is_none |-> FALSE, text |-> text]

\* error_message.replace("{", "{{").replace("}", "}}")
RECURSIVE escape_braces(_)
escape_braces(message) ==
    IF message = <<>>
    THEN <<>>
    ELSE (IF message[1] \in {"{", "}"}
          THEN <<message[1], message[1]>>
          ELSE <<message[1]>>) \o escape_braces(Tail(message))

\* The correction section of the text llm_prompt_func returns: there is one
\* when error_message is truthy.
correction_section(error_message) ==
    IF ~error_message.is_none /\ error_message.text # <<>>
    THEN Message(escape_braces(error_message.text))
    ELSE NoMessage

\* ChatPromptTemplate.from_template(prompt_text), formatted: a doubled brace
\* stands for one brace; a single one would open or close a variable.
RECURSIVE format_template(_)
format_template(section) ==
    IF section = <<>>
    THEN <<>>
    ELSE IF section[1] \in {"{", "}"}
         THEN IF Len(section) >= 2 /\ section[2] = section[1]
              THEN <<section[1]>> \o format_template(Tail(Tail(section)))
              ELSE <<"variable">> \o format_template(Tail(section))
         ELSE <<section[1]>> \o format_template(Tail(section))

\* The validation error the model is shown on an attempt, None for none.
ShownError(error_message) ==
    LET section == correction_section(error_message)
    IN  IF section.is_none
        THEN NoMessage
        ELSE Message(format_template(section.text))

RagInit ==
    /\ rag_pc = "Idle"
    /\ rag_caller = NoCaller
    /\ rag_attempt = 0
    /\ rag_error = NoMessage
    /\ rag_trace = <<>>
    /\ rag_result = None

\* The loop is entered: error_message = None, i = 0.
RagCall ==
    /\ rag_pc = "Idle"
    /\ \E caller \in RagCallers : rag_caller' = caller
    /\ rag_pc' = "Attempting"
    /\ rag_attempt' = 0
    /\ rag_error' = NoMessage
    /\ rag_trace' = <<>>
    /\ rag_result' = None
    /\ UNCHANGED notRag

\* One attempt as the trace keeps it: the error the prompt showed, how the
\* attempt ended (valid, invalid, raised) and the validation error it
\* ended with.
Attempt(shown, outcome, error) ==
    [shown |-> shown, outcome |-> outcome, error |-> error]

\* rag_chain.invoke raises: nothing in the function catches it.
RagInvokeRaises ==
    /\ rag_pc = "Attempting"
    /\ rag_attempt < RagMaxRetries
    /\ \E e \in InvokeErrors :
           /\ rag_trace' = Append(rag_trace,
                                  Attempt(ShownError(rag_error), "raised",
                                          NoMessage))
           /\ rag_result' = [exception |-> e]
    /\ rag_pc' = "Raised"
    /\ UNCHANGED <<rag_caller, rag_attempt, rag_error>>
    /\ UNCHANGED notRag

\* The reply validates: validated_data is returned.
RagReplyValid ==
    /\ rag_pc = "Attempting"
    /\ rag_attempt < RagMaxRetries
    /\ \E data \in ValidatedData(rag_caller.validation_model) :
           rag_result' = data
    /\ rag_trace' = Append(rag_trace,
                           Attempt(ShownError(rag_error), "valid",
                                   NoMessage))
    /\ rag_pc' = "Returned"
    /\ UNCHANGED <<rag_caller, rag_attempt, rag_error>>
    /\ UNCHANGED notRag

\* The reply fails validation: error_message = str(e); the last attempt
\* raises, an earlier one goes round the loop.
RagReplyInvalid ==
    /\ rag_pc = "Attempting"
    /\ rag_attempt < RagMaxRetries
    /\ \E e \in ValidationErrors :
           /\ rag_error' = Message(e)
           /\ rag_trace' = Append(rag_trace,
                                  Attempt(ShownError(rag_error), "invalid",
                                          Message(e)))
    /\ IF rag_attempt = RagMaxRetries - 1
       THEN /\ rag_pc' = "Raised"
            /\ rag_result' =
                   [exception |->
                       "Failed to generate valid JSON after multiple retries."]
            /\ UNCHANGED rag_attempt
       ELSE /\ rag_attempt' = rag_attempt + 1
            /\ UNCHANGED <<rag_pc, rag_result>>
    /\ UNCHANGED rag_caller
    /\ UNCHANGED notRag

\* The attempt failed validation.
FailedValidation(a) == a.outcome = "invalid"

\* Every attempt of the finished call failed validation.
AllAttemptsFailed ==
    /\ rag_pc \in {"Returned", "Raised"}
    /\ rag_trace # <<>>
    /\ \A k \in 1..Len(rag_trace) : FailedValidation(rag_trace[k])

\* The model call of the last attempt raised.
ModelCallRaised ==
    /\ rag_pc \in {"Returned", "Raised"}
    /\ rag_trace # <<>>
    /\ rag_trace[Len(rag_trace)].outcome = "raised"

\* C19: _run_rag_validation_loop never propagates an exception; when all
\* attempts fail validation or the model call raises, it returns the empty
\* default of the validation model.
C19_NeverPropagates ==
    /\ rag_pc # "Raised"
    /\ (AllAttemptsFailed \/ ModelCallRaised)
           => /\ rag_pc = "Returned"
              /\ rag_result = RagEmptyDefault(rag_caller.validation_model)

\* C20: when every reply fails validation the loop makes 1 + max_retries
\* = 3 attempts; the first is prompted with no error message and each
\* later one with the validation error of the attempt just before it.
C20_ThreeAttempts ==
    AllAttemptsFailed
        => /\ Len(rag_trace) = 1 + RagMaxRetries
           /\ rag_trace[1].shown = NoMessage
           /\ \A k \in 2..Len(rag_trace) :
                  rag_trace[k].shown = rag_trace[k - 1].error


(***************************************************************************)
(* Part 9.  AmbiguityDetector.get_context_window                           *)
(*          (app/ambiguity_detector.py)                                    *)
(***************************************************************************)

\* Largest window_size explored.
MaxWindow == 2

\* "..."
Ellipsis == <<46, 46, 46>>

Max(a, b) == IF a > b THEN a ELSE b

\* str.startswith / str.endswith
StartsWith(text, prefix) ==
    Len(text) >= Len(prefix) /\ SubSeq(text, 1, Len(prefix)) = prefix

EndsWith(text, suffix) ==
    /\ Len(text) >= Len(suffix)
    /\ SubSeq(text, Len(text) - Len(suffix) + 1, Len(text)) = suffix

\* The window boundaries and the slice text[context_start:context_end].
context_start(position_start, window_size) ==
    Max(0, position_start - window_size)

context_end(text, position_end, window_size) ==
    Min(Len(text), position_end + window_size)

WindowSlice(text, position_start, position_end, window_size) ==
    SubSeq(text, context_start(position_start, window_size) + 1,
           context_end(text, position_end, window_size))

\* Mutant of get_context_window: the marker is put on both sides always.
get_context_window_AlwaysMarked(text, position_start, position_end, window_size) ==
    strip(Ellipsis
            \o WindowSlice(text, position_start, position_end, window_size)
            \o Ellipsis)

\* get_context_window
get_context_window(text, position_start, position_end, window_size) ==
    LET context == WindowSlice(text, position_start, position_end, window_size)
        marked_left ==
            IF context_start(position_start, window_size) > 0
            THEN Ellipsis \o context ELSE context
        marked ==
            IF context_end(text, position_end, window_size) < Len(text)
            THEN marked_left \o Ellipsis ELSE marked_left
    IN  strip(marked)

CwInit ==
    /\ cw_pc = "Idle"
    /\ cw_text = <<>>
    /\ cw_start = 0
    /\ cw_end = 0
    /\ cw_size = 0
    /\ cw_result = <<>>


\* get_context_window is called with the span of a term in the text.
GetContextWindow ==
    /\ cw_pc = "Idle"
    /\ \E text \in ScanTexts, window_size \in 0..MaxWindow :
       \E position_end \in 1..Len(text) :
       \E position_start \in 0..(position_end - 1) :
         /\ cw_text' = text
         /\ cw_start' = position_start
         /\ cw_end' = position_end
         /\ cw_size' = window_size
         /\ cw_result' = get_context_window(text, position_start,
                                            position_end, window_size)
    /\ cw_pc' = "Returned"
    /\ UNCHANGED notCw

\* The caller is done with the window; the next call has arguments of its
\* own.
WindowDone ==
    /\ cw_pc = "Returned"
    /\ cw_pc' = "Idle"
    /\ cw_text' = <<>>
    /\ cw_start' = 0
    /\ cw_end' = 0
    /\ cw_size' = 0
    /\ cw_result' = <<>>
    /\ UNCHANGED notCw

\* The marker is put in front of (behind) the slice exactly when the
\* window is clipped inside the text on that side.
ClippedLeft == cw_start - cw_size > 0

ClippedRight == cw_end + cw_size < Len(cw_text)

\* C32 as stated: the string returned starts with the marker if and only
\* if s - w > 0 and ends with it if and only if e + w < len(text).
C32_MarkerIffClipped ==
    cw_pc = "Returned"
        => /\ StartsWith(cw_result, Ellipsis) <=> ClippedLeft
           /\ EndsWith(cw_result, Ellipsis) <=> ClippedRight

\* C32 amended: the string returned is the trimmed slice with the marker
\* put in front exactly when s - w > 0 and behind exactly when
\* e + w < len(text); hence it starts (ends) with the marker whenever the
\* window is clipped on that side, and when it is not, the string is the
\* trimmed text up to (from) the window's other edge with nothing added.
C32_MarkerAddedIffClipped ==
    cw_pc = "Returned"
        => LET context == WindowSlice(cw_text, cw_start, cw_end, cw_size)
           IN  /\ cw_result =
                     strip((IF ClippedLeft THEN Ellipsis ELSE <<>>)
                             \o context
                             \o (IF ClippedRight THEN Ellipsis ELSE <<>>))
               /\ ClippedLeft => StartsWith(cw_result, Ellipsis)
               /\ ClippedRight => EndsWith(cw_result, Ellipsis)
               /\ (~ClippedLeft /\ ~ClippedRight) => cw_result = strip(cw_text)

\* C32 witness: a window clipped on the left that reaches the end of the
\* text on the right.
C32_Witness ==
    /\ cw_pc = "Returned"
    /\ cw_text = <<102, 32, 120, 32>>
    /\ cw_start = 2
    /\ cw_end = 3
    /\ cw_size = 1
    /\ cw_result = <<46, 46, 46, 32, 120>>


(***************************************************************************)
(* Part 10.  ContextAnalyzer._optimize_context (app/context_analyzer.py)   *)
(*                                                                         *)
(* The budget of 4000 characters is scaled to 8; the marker keeps its      *)
(* three characters.                                                       *)
(***************************************************************************)

MAX_PROMPT_LENGTH == 8

\* Longest text in front of and behind the sentence in a context.
MaxPad == 8

\* n times the character ch.
Repeat(ch, n) == [i \in 1..n |-> ch]

\* Sentences are runs of "s", the text around them runs of "A".
OcSentences == { Repeat(115, n) : n \in 1..MAX_PROMPT_LENGTH }

OcContexts(sentence) ==
    { Repeat(65, before) \o sentence \o Repeat(65, after) :
         before \in 0..MaxPad, after \in 0..MaxPad }
      \cup { Repeat(65, n) : n \in 0..(2 * MaxPad) }

\* str.find: the offset of the first occurrence, -1 when there is none.
find(text, sub) ==
    LET hits == { p \in 0..(Len(text) - Len(sub)) :
                    SubSeq(text, p + 1, p + Len(sub)) = sub }
    IN  IF hits = {} THEN -1
        ELSE CHOOSE p \in hits : \A q \in hits : p <= q

\* _optimize_context(term, sentence, context); the term is not used.
optimize_context(sentence, context) ==
    IF context = <<>> \/ context = sentence
    THEN sentence
    ELSE IF Len(context) <= MAX_PROMPT_LENGTH
    THEN context
    ELSE LET sentence_pos == find(context, sentence)
             max_before == (MAX_PROMPT_LENGTH - Len(sentence)) \div 2
             max_after == (MAX_PROMPT_LENGTH - Len(sentence)) \div 2
             start == Max(0, sentence_pos - max_before)
             end == Min(Len(context),
                        sentence_pos + Len(sentence) + max_after)
             optimized == SubSeq(context, start + 1, end)
             marked_left == IF start > 0 THEN Ellipsis \o optimized
                            ELSE optimized
         IN  IF sentence_pos = -1
             THEN sentence
             ELSE IF end < Len(context) THEN marked_left \o Ellipsis
                  ELSE marked_left

OcInit ==
    /\ oc_pc = "Idle"
    /\ oc_sentence = <<>>
    /\ oc_context = <<>>
    /\ oc_result = <<>>

\* _optimize_context is called for an item of a batch.
OptimizeContext ==
    /\ oc_pc = "Idle"
    /\ \E sentence \in OcSentences :
       \E context \in OcContexts(sentence) :
         /\ oc_sentence' = sentence
         /\ oc_context' = context
         /\ oc_result' = optimize_context(sentence, context)
    /\ oc_pc' = "Returned"
    /\ UNCHANGED notOc

\* The string goes into the prompt; the next item has arguments of its own.
OptimizeDone ==
    /\ oc_pc = "Returned"
    /\ oc_pc' = "Idle"
    /\ oc_sentence' = <<>>
    /\ oc_context' = <<>>
    /\ oc_result' = <<>>
    /\ UNCHANGED notOc

\* C34: for every sentence no longer than MAX_PROMPT_LENGTH and every
\* context, also one longer than the budget with the sentence in its
\* middle, _optimize_context returns a string of length at most
\* MAX_PROMPT_LENGTH.
C34_WithinBudget ==
    oc_pc = "Returned" => Len(oc_result) <= MAX_PROMPT_LENGTH


(***************************************************************************)
(* Part 11.  The model calls a stage instance issues on each path:         *)
(*           evaluate_term_in_context, evaluate_batch_optimized and its    *)
(*           _fallback_sequential_evaluate (app/context_analyzer.py),      *)
(*           generate_complete_analysis, _batch_generate_optimized and its *)
(*           _fallback_individual_generate (app/suggestion_generator.py),  *)
(*           in the caller's thread.  A chunk worker runs the batch method *)
(*           on its chunk in the same way.                                 *)
(***************************************************************************)

\* Longest list handed to a batch method.
MaxItems == 2

\* Last clock tick.
PathMaxTime == 4

PathApis == {"evaluate_term_in_context", "evaluate_batch_optimized",
             "generate_complete_analysis", "batch_generate_optimized"}

BatchApis == {"evaluate_batch_optimized", "batch_generate_optimized"}

\* The methods of ContextAnalyzer.
ClassifierApis == {"evaluate_term_in_context", "evaluate_batch_optimized"}

StageOf(api) == IF api \in ClassifierApis THEN "classify" ELSE "suggest"

\* The term of an item; "<script>" is a text the sanitizer raises on.
PathTerms == {"fast", "<script>"}

PathItemLists(api) ==
    IF api \in BatchApis
    THEN UNION { [1..n -> PathTerms] : n \in 1..MaxItems }
    ELSE [1..1 -> PathTerms]

\* A model call: the items in its prompt, whether their strings are what
\* the sanitizer returned, when chain.invoke was entered and how it ended.
ModelCall(kind, items, sanitized, at) ==
    [kind |-> kind, items |-> items, sanitized |-> sanitized, at |-> at,
     outcome |-> "pending"]

\* The sequences over 1..n without repetition.
RECURSIVE Arrangements(_)
Arrangements(ids) ==
    {<<>>} \cup UNION { { <<i>> \o rest : rest \in Arrangements(ids \ {i}) } :
                          i \in ids }

\* The arrays a batch reply may hold for n items: the element tagged id
\* i - 1 answers item i; the model may omit and reorder elements.
TaggedReplies(n) ==
    { ArrayReply(FALSE, [k \in 1..Len(a) |-> Entry("validated", a[k])]) :
         a \in Arrangements(1..n) }
      \cup {OtherReply("text")}

\* The dictionary returned at `except ValueError` of
\* evaluate_term_in_context, and what _parse_evaluation_response or
\* _parse_complete_analysis_response returns, and the dictionary of
\* `except Exception` around chain.invoke.
InvalidInputEntry(item) == Entry("invalid_input", item)

SingleEntry(item) == Entry("single", item)

SingleFallbackEntry(item) == Entry("single_fallback", item)

PathInit ==
    /\ p_pc = "Idle"
    /\ p_api = "none"
    /\ p_items = <<>>
    /\ p_pos = 0
    /\ p_calls = <<>>
    /\ p_results = <<>>
    /\ p_now = ClockStart
    /\ p_last = 0

\* Time passes while a call of the instance is under way.
PathTick ==
    /\ p_pc \notin {"Idle", "Returned"}
    /\ p_now < PathMaxTime
    /\ p_now' = p_now + 1
    /\ UNCHANGED <<p_pc, p_api, p_items, p_pos, p_calls, p_results, p_last>>
    /\ UNCHANGED notPath

\* A method of the instance is called.  The batch methods go through
\* _apply_rate_limit first, which in one thread sleeps until
\* MIN_REQUEST_INTERVAL after the recorded time and records the time it
\* returns at; the single-item methods go to their item.
PathCall ==
    /\ p_pc = "Idle"
    /\ \E api \in PathApis :
       \E items \in PathItemLists(api) :
         /\ p_api' = api
         /\ p_items' = items
         /\ IF api \in BatchApis
            THEN /\ Max(p_now, p_last + MIN_REQUEST_INTERVAL) <= PathMaxTime
                 /\ p_now' = Max(p_now, p_last + MIN_REQUEST_INTERVAL)
                 /\ p_last' = p_now'
                 /\ p_pc' = "BatchReady"
                 /\ p_pos' = 0
            ELSE /\ p_pc' = "Items"
                 /\ p_pos' = 1
                 /\ UNCHANGED <<p_now, p_last>>
    /\ p_calls' = <<>>
    /\ p_results' = <<>>
    /\ UNCHANGED notPath

\* terms_list is built from the items as they were passed in and
\* chain.invoke is entered with it.
PathBatchIssue ==
    /\ p_pc = "BatchReady"
    /\ p_calls' = Append(p_calls,
                         ModelCall("batch", [i \in 1..Len(p_items) |-> i],
                                   FALSE, p_now))
    /\ p_pc' = "BatchWaiting"
    /\ UNCHANGED <<p_api, p_items, p_pos, p_results, p_now, p_last>>
    /\ UNCHANGED notPath

SetOutcome(calls, outcome) ==
    [calls EXCEPT ![Len(calls)].outcome = outcome]

\* The batch call returns and the reply is parsed by position.
PathBatchReturns ==
    /\ p_pc = "BatchWaiting"
    /\ \E reply \in TaggedReplies(Len(p_items)) :
         p_results' = parse_batch_response(StageOf(p_api), reply, Len(p_items))
    /\ p_calls' = SetOutcome(p_calls, "returned")
    /\ p_pc' = "Returned"
    /\ UNCHANGED <<p_api, p_items, p_pos, p_now, p_last>>
    /\ UNCHANGED notPath

\* Mutant of PathBatchRaises: the failed batch is answered with fallback
\* entries, no item is tried on its own.
PathBatchRaises_GivesUp ==
    /\ p_pc = "BatchWaiting"
    /\ p_calls' = SetOutcome(p_calls, "raised")
    /\ p_results' = [i \in 1..Len(p_items) |-> SingleFallbackEntry(i)]
    /\ p_pc' = "Returned"
    /\ UNCHANGED <<p_api, p_items, p_pos, p_now, p_last>>
    /\ UNCHANGED notPath

\* The batch call raises: _fallback_sequential_evaluate or
\* _fallback_individual_generate takes the items one by one.
PathBatchRaises ==
    /\ p_pc = "BatchWaiting"
    /\ p_calls' = SetOutcome(p_calls, "raised")
    /\ p_pos' = 1
    /\ p_pc' = "Items"
    /\ UNCHANGED <<p_api, p_items, p_results, p_now, p_last>>
    /\ UNCHANGED notPath

\* The item's result is appended and the loop goes on or the list is
\* returned.
ItemDone(entry) ==
    /\ p_results' = Append(p_results, entry)
    /\ p_pos' = p_pos + 1
    /\ p_pc' = IF p_pos = Len(p_items) THEN "Returned" ELSE "Items"

\* evaluate_term_in_context: the sanitizer raises ValueError on the item and
\* the fallback dictionary is returned without a model call.
PathItemRejected ==
    /\ p_pc = "Items"
    /\ p_api \in ClassifierApis
    /\ SanitizerRejects(p_items[p_pos])
    /\ ItemDone(InvalidInputEntry(p_pos))
    /\ UNCHANGED <<p_api, p_items, p_calls, p_now, p_last>>
    /\ UNCHANGED notPath

\* chain.invoke of the single-item method is entered:
\* evaluate_term_in_context passes the sanitized strings,
\* generate_complete_analysis its arguments as they are.
PathItemIssue ==
    /\ p_pc = "Items"
    /\ p_api \in ClassifierApis => ~SanitizerRejects(p_items[p_pos])
    /\ p_calls' = Append(p_calls,
                         ModelCall("single", <<p_pos>>,
                                   p_api \in ClassifierApis, p_now))
    /\ p_pc' = "ItemWaiting"
    /\ UNCHANGED <<p_api, p_items, p_pos, p_results, p_now, p_last>>
    /\ UNCHANGED notPath

\* The item's call returns and its reply is parsed.
PathItemReturns ==
    /\ p_pc = "ItemWaiting"
    /\ p_calls' = SetOutcome(p_calls, "returned")
    /\ ItemDone(SingleEntry(p_pos))
    /\ UNCHANGED <<p_api, p_items, p_now, p_last>>
    /\ UNCHANGED notPath

\* The item's call raises: the method's own handler returns the fallback.
PathItemRaises ==
    /\ p_pc = "ItemWaiting"
    /\ p_calls' = SetOutcome(p_calls, "raised")
    /\ ItemDone(SingleFallbackEntry(p_pos))
    /\ UNCHANGED <<p_api, p_items, p_now, p_last>>
    /\ UNCHANGED notPath

\* The caller has its list; the instance stays as it is for the next call.
PathDone ==
    /\ p_pc = "Returned"
    /\ p_pc' = "Idle"
    /\ p_api' = "none"
    /\ p_items' = <<>>
    /\ p_pos' = 0
    /\ p_calls' = <<>>
    /\ p_results' = <<>>
    /\ UNCHANGED <<p_now, p_last>>
    /\ UNCHANGED notPath

\* The single-item model calls made for item i.
ItemCalls(i) ==
    { k \in 1..Len(p_calls) :
        p_calls[k].kind = "single" /\ p_calls[k].items = <<i>> }

\* The batch call of the method raised and the list has been returned.
BatchFailedAndReturned ==
    /\ p_pc = "Returned"
    /\ p_api \in BatchApis
    /\ p_calls[1].outcome = "raised"

BatchAnswered ==
    /\ p_pc = "Returned"
    /\ p_api \in BatchApis
    /\ p_calls[1].outcome = "returned"

\* C37: in the batch path the result at input position i is the validated
\* response element whose id is i, or a fallback entry; an element tagged
\* with the id of item j is never returned at a position other than j,
\* also when the model omits or reorders elements.
C37_ResultsFollowIds ==
    BatchAnswered
        => \A i \in 1..Len(p_results) :
              p_results[i].kind = "validated" => p_results[i].item = i

\* C39: every model call issued during one batch_evaluate call, the
\* per-item calls of the sequential fallback included, starts at least
\* MIN_REQUEST_INTERVAL after the model call before it.
C39_EveryCallSpaced ==
    p_api = "evaluate_batch_optimized"
        => \A k \in 2..Len(p_calls) :
              p_calls[k].at - p_calls[k - 1].at >= MIN_REQUEST_INTERVAL

\* C40: every string that reaches the model from the Classification or the
\* Suggestion stage has passed through the input sanitizer, on every path.
C40_OnlySanitizedInput ==
    \A k \in 1..Len(p_calls) : p_calls[k].sanitized

(***************************************************************************)
(* Part 12.  self._request_count: the `+= 1` after the batch model call of *)
(*           evaluate_batch_optimized / _batch_generate_optimized, run by  *)
(*           the caller's thread or by the chunk workers of the pool, and  *)
(*           get_request_stats.  No lock guards the attribute; the        *)
(*           statement reads it, adds one and writes it back.              *)
(***************************************************************************)

\* Threads that run the batch method of the instance.
CountThreads == 3

CountWorkers == 1..CountThreads

CountInit ==
    /\ rc_pc = [w \in CountWorkers |-> "Idle"]
    /\ rc_loaded = [w \in CountWorkers |-> 0]
    /\ rc_count = 0
    /\ rc_returned = 0

\* A thread enters the batch method and reaches chain.invoke.
CountStart ==
    /\ \E w \in CountWorkers :
         /\ rc_pc[w] = "Idle"
         /\ rc_pc' = [rc_pc EXCEPT ![w] = "Invoking"]
    /\ UNCHANGED <<rc_loaded, rc_count, rc_returned>>
    /\ UNCHANGED notCount

\* chain.invoke returns.
CountInvokeReturns ==
    /\ \E w \in CountWorkers :
         /\ rc_pc[w] = "Invoking"
         /\ rc_pc' = [rc_pc EXCEPT ![w] = "Load"]
    /\ rc_returned' = rc_returned + 1
    /\ UNCHANGED <<rc_loaded, rc_count>>
    /\ UNCHANGED notCount

\* chain.invoke raises: the except branch is taken, the counter is not
\* touched.
CountInvokeRaises ==
    /\ \E w \in CountWorkers :
         /\ rc_pc[w] = "Invoking"
         /\ rc_pc' = [rc_pc EXCEPT ![w] = "Failed"]
    /\ UNCHANGED <<rc_loaded, rc_count, rc_returned>>
    /\ UNCHANGED notCount

\* self._request_count += 1, first half: the attribute is read.
CountLoad ==
    /\ \E w \in CountWorkers :
         /\ rc_pc[w] = "Load"
         /\ rc_loaded' = [rc_loaded EXCEPT ![w] = rc_count]
         /\ rc_pc' = [rc_pc EXCEPT ![w] = "Store"]
    /\ UNCHANGED <<rc_count, rc_returned>>
    /\ UNCHANGED notCount

\* self._request_count += 1, second half: the sum is written back.
CountStore ==
    /\ \E w \in CountWorkers :
         /\ rc_pc[w] = "Store"
         /\ rc_count' = rc_loaded[w] + 1
         /\ rc_pc' = [rc_pc EXCEPT ![w] = "Done"]
    /\ UNCHANGED <<rc_loaded, rc_returned>>
    /\ UNCHANGED notCount

\* get_request_stats()['total_requests']
total_requests == rc_count

\* C36: after any interleaving of batch calls on one instance,
\* total_requests equals the number of batch model calls that returned
\* without raising; concurrent chunk workers lose no increment.
C36_CountsEveryReturn ==
    (\A w \in CountWorkers : rc_pc[w] \in {"Idle", "Done", "Failed"})
        => total_requests = rc_returned

(***************************************************************************)
(* Part 13.  ContradictionAnalysisService.run_analysis                     *)
(*           (app/contradiction_analysis_service.py), on top of the retry  *)
(*           protocol of Part 1, and the database session it writes to.    *)
(***************************************************************************)

\* Most requirements _fetch_requirements finds for the document.
MaxRequirements == 2

NoReport == [kind |-> "none", total_conflicts_found |-> 0, status |-> "",
             id |-> 0]

\* ContradictionAnalysis(..., total_conflicts_found=..., status=...)
ContradictionAnalysis(contradictions) ==
    [kind |-> "ContradictionAnalysis",
     total_conflicts_found |-> Len(contradictions),
     status |-> IF contradictions # <<>> THEN "complete" ELSE "no_conflicts",
     id |-> 0]

\* ConflictingPair(analysis_id=report.id, ..., status='pending')
ConflictingPair(analysis_id, conflict_data) ==
    [kind |-> "ConflictingPair", analysis_id |-> analysis_id,
     conflict |-> conflict_data, status |-> "pending"]

RunInit ==
    /\ ra_pc = "Idle"
    /\ ra_found = 0
    /\ ra_session = <<>>
    /\ ra_committed = <<>>
    /\ ra_report = NoReport
    /\ ra_db_error = FALSE

\* run_analysis is called: the requirements are fetched, ValueError is
\* raised when there are none, otherwise the prompt is built and
\* _invoke_llm_with_retry is entered.
RunCall ==
    /\ ra_pc = "Idle"
    /\ \E n \in 0..MaxRequirements :
         /\ ra_found' = n
         /\ ra_pc' = IF n = 0 THEN "Raised" ELSE "Invoking"
    /\ UNCHANGED <<ra_session, ra_committed, ra_report, ra_db_error>>
    /\ UNCHANGED retryVars
    /\ UNCHANGED notRun

\* _invoke_llm_with_retry raised: nothing in run_analysis catches it.
RunLlmRaised ==
    /\ ra_pc = "Invoking"
    /\ pc = "Raised"
    /\ ra_pc' = "Raised"
    /\ UNCHANGED <<ra_found, ra_session, ra_committed, ra_report, ra_db_error>>
    /\ UNCHANGED retryVars
    /\ UNCHANGED notRun

\* Mutant of RunAddReport: the status is 'complete' whatever was found.
RunAddReport_AlwaysComplete ==
    /\ ra_pc = "Invoking"
    /\ pc \in {"Success", "Failed"}
    /\ ra_report' = [ContradictionAnalysis(result.contradictions)
                        EXCEPT !.status = "complete"]
    /\ ra_session' = Append(ra_session, ra_report')
    /\ ra_pc' = "Flushing"
    /\ UNCHANGED <<ra_found, ra_committed, ra_db_error>>
    /\ UNCHANGED retryVars
    /\ UNCHANGED notRun

\* _invoke_llm_with_retry returned: the report is built from the validated
\* response and added to the session.
RunAddReport ==
    /\ ra_pc = "Invoking"
    /\ pc \in {"Success", "Failed"}
    /\ ra_report' = ContradictionAnalysis(result.contradictions)
    /\ ra_session' = Append(ra_session, ra_report')
    /\ ra_pc' = "Flushing"
    /\ UNCHANGED <<ra_found, ra_committed, ra_db_error>>
    /\ UNCHANGED retryVars
    /\ UNCHANGED notRun

\* db.session.flush(): the report gets its id.
RunFlush ==
    /\ ra_pc = "Flushing"
    /\ ra_report' = [ra_report EXCEPT !.id = 1]
    /\ ra_session' = <<ra_report'>>
    /\ ra_pc' = IF result.contradictions = <<>> THEN "Committing"
                ELSE "AddingPairs"
    /\ UNCHANGED <<ra_found, ra_committed, ra_db_error>>
    /\ UNCHANGED retryVars
    /\ UNCHANGED notRun

\* One iteration of `for conflict_data in validated_response.contradictions`.
RunAddPair ==
    /\ ra_pc = "AddingPairs"
    /\ LET k == Len(ra_session)
       IN  /\ ra_session' =
                 Append(ra_session,
                        ConflictingPair(ra_report.id, result.contradictions[k]))
           /\ ra_pc' = IF k = Len(result.contradictions) THEN "Committing"
                       ELSE "AddingPairs"
    /\ UNCHANGED <<ra_found, ra_committed, ra_report, ra_db_error>>
    /\ UNCHANGED retryVars
    /\ UNCHANGED notRun

\* db.session.commit(); return report
RunCommit ==
    /\ ra_pc = "Committing"
    /\ ra_committed' = ra_committed \o ra_session
    /\ ra_session' = <<>>
    /\ ra_pc' = "Returned"
    /\ UNCHANGED <<ra_found, ra_report, ra_db_error>>
    /\ UNCHANGED retryVars
    /\ UNCHANGED notRun

\* flush or commit raises (the database refuses the write or is gone): the
\* exception leaves run_analysis and nothing is committed.
RunSessionRaises ==
    /\ ra_pc \in {"Flushing", "Committing"}
    /\ ra_db_error' = TRUE
    /\ ra_pc' = "Raised"
    /\ UNCHANGED <<ra_found, ra_session, ra_committed, ra_report>>
    /\ UNCHANGED retryVars
    /\ UNCHANGED notRun

\* The committed rows of a kind.
Committed(kind) ==
    SelectSeq(ra_committed, LAMBDA row : row.kind = kind)

\* Exactly one analysis is committed; its count is the number of pairs
\* committed for it and its status goes with the count.
OneConsistentAnalysis ==
    /\ Len(Committed("ContradictionAnalysis")) = 1
    /\ LET report == Committed("ContradictionAnalysis")[1]
           pairs == Committed("ConflictingPair")
       IN  /\ report.total_conflicts_found = Len(pairs)
           /\ \A k \in 1..Len(pairs) : pairs[k].analysis_id = report.id
           /\ report.status = IF Len(pairs) > 0 THEN "complete"
                               ELSE "no_conflicts"
           /\ (pc = "Failed") =>
                 (report.status = "no_conflicts" /\ pairs = <<>>)

LaterInit == CwInit /\ OcInit /\ PathInit /\ CountInit /\ RunInit

\* The retry protocol as left by the constructor of the service.
RetryParked ==
    /\ RetryInit
    /\ llm_available = TRUE
    /\ max_retries = 2

Init ==
    /\ RetryInit /\ EvalInit /\ BatchInit /\ RateInit /\ LexParked /\ SgInit
    /\ ScanParked /\ RagInit /\ LaterInit

Next ==
    \/ CallUnavailable
    \/ Call
    \/ Invoke
    \/ ReplyValid
    \/ ReplyInvalid
    \/ InvokeRaisesValidation
    \/ InvokeRaises
    \/ Correct

Spec == Init /\ [][Next]_vars

\* Every step of the call is taken once it is possible: the caller's thread
\* runs, and each model call eventually returns or raises.
FairSpec == Spec /\ WF_vars(Next)

EvalSpecInit ==
    /\ EvalInit /\ RetryParked /\ BatchInit /\ RateInit /\ LexParked /\ SgInit
    /\ ScanParked /\ RagInit /\ LaterInit

EvalNext ==
    \/ EvalCallRejected
    \/ EvalCall
    \/ EvalReply
    \/ EvalInvokeRaises

EvalSpec == EvalSpecInit /\ [][EvalNext]_vars

BatchSpecInit ==
    /\ BatchInit /\ RetryParked /\ EvalInit /\ RateInit /\ LexParked /\ SgInit
    /\ ScanParked /\ RagInit /\ LaterInit

BatchNext ==
    \/ BatchCallEmpty
    \/ BatchCallSingle
    \/ BatchCallParallel
    \/ WorkerStart
    \/ WorkerReply
    \/ WorkerInvokeRaises
    \/ WorkerRaises
    \/ CollectResult
    \/ CollectFailure
    \/ ParallelReturn
    \/ SingleReturn
    \/ SingleRaise

BatchSpec == BatchSpecInit /\ [][BatchNext]_vars

RateSpecInit ==
    /\ RateInit /\ RetryParked /\ EvalInit /\ BatchInit /\ LexParked /\ SgInit
    /\ ScanParked /\ RagInit /\ LaterInit

RateNext ==
    \/ Tick
    \/ RateReadClock
    \/ RateReadLast
    \/ RateDecide
    \/ RateWake
    \/ RateStamp

RateSpec == RateSpecInit /\ [][RateNext]_vars

\* The calls of one thread.
RateSeqNext ==
    \/ Tick
    \/ RateReadClockInTurn
    \/ RateReadLast
    \/ RateDecide
    \/ RateWake
    \/ RateStamp

RateSeqSpec == RateSpecInit /\ [][RateSeqNext]_vars

LexNext ==
    \/ LexTick
    \/ GetCall
    \/ GetCheck
    \/ GetCached
    \/ ReadGlobal
    \/ ReadInclude
    \/ ReadExclude
    \/ GetStore
    \/ AddCall
    \/ AddCheck
    \/ AddCommit
    \/ RemoveCall
    \/ RemoveFind
    \/ RemoveCommit
    \/ InvCheckOwn
    \/ InvDelOwn
    \/ InvCheckGlobal
    \/ InvDelGlobal
    \/ LexReturn

\* One call at a time.
LexSpecInit ==
    /\ LexInit
    /\ lex_threaded = FALSE
    /\ RetryParked /\ EvalInit /\ BatchInit /\ RateInit /\ SgInit
    /\ ScanParked /\ RagInit /\ LaterInit

LexSpec == LexSpecInit /\ [][LexNext]_vars

\* Calls on concurrent request threads.
LexRaceSpecInit ==
    /\ LexInit
    /\ lex_threaded = TRUE
    /\ RetryParked /\ EvalInit /\ BatchInit /\ RateInit /\ SgInit
    /\ ScanParked /\ RagInit /\ LaterInit

LexRaceSpec == LexRaceSpecInit /\ [][LexNext]_vars

SuggestNext ==
    \/ SgCall
    \/ SgReply
    \/ SgInvokeRaises
    \/ SgIndividual
    \/ SgWorkerRaises

SuggestSpecInit ==
    /\ SgInit /\ RetryParked /\ EvalInit /\ BatchInit /\ RateInit /\ LexParked
    /\ ScanParked /\ RagInit /\ LaterInit

SuggestSpec == SuggestSpecInit /\ [][SuggestNext]_vars

ScanNext ==
    \/ AnalyzeBlank
    \/ AnalyzeText
    \/ AnalyzeAgain

ScanSpecInit ==
    /\ ScanInit
    /\ RetryParked /\ EvalInit /\ BatchInit /\ RateInit /\ LexParked /\ SgInit
    /\ RagInit /\ LaterInit

ScanSpec == ScanSpecInit /\ [][ScanNext]_vars

RagNext ==
    \/ RagCall
    \/ RagInvokeRaises
    \/ RagReplyValid
    \/ RagReplyInvalid

RagSpecInit ==
    /\ RagInit
    /\ RetryParked /\ EvalInit /\ BatchInit /\ RateInit /\ LexParked /\ SgInit
    /\ ScanParked /\ LaterInit

\* The components of Parts 1 to 8 as constructed.
CoreParked ==
    /\ RetryParked /\ EvalInit /\ BatchInit /\ RateInit /\ LexParked /\ SgInit
    /\ ScanParked /\ RagInit

WindowNext ==
    \/ GetContextWindow
    \/ WindowDone

WindowSpecInit == LaterInit /\ CoreParked

WindowSpec == WindowSpecInit /\ [][WindowNext]_vars

OptimizeNext ==
    \/ OptimizeContext
    \/ OptimizeDone

OptimizeSpecInit == LaterInit /\ CoreParked

OptimizeSpec == OptimizeSpecInit /\ [][OptimizeNext]_vars

PathNext ==
    \/ PathTick
    \/ PathCall
    \/ PathBatchIssue
    \/ PathBatchReturns
    \/ PathBatchRaises
    \/ PathItemRejected
    \/ PathItemIssue
    \/ PathItemReturns
    \/ PathItemRaises
    \/ PathDone

PathSpecInit == LaterInit /\ CoreParked

PathSpec == PathSpecInit /\ [][PathNext]_vars

CountNext ==
    \/ CountStart
    \/ CountInvokeReturns
    \/ CountInvokeRaises
    \/ CountLoad
    \/ CountStore

CountSpecInit == LaterInit /\ CoreParked

CountSpec == CountSpecInit /\ [][CountNext]_vars

\* _invoke_llm_with_retry runs while run_analysis is inside its call.
RetryStep == ra_pc = "Invoking" /\ Next

AnalysisNext ==
    \/ RunCall
    \/ RetryStep
    \/ RunLlmRaised
    \/ RunAddReport
    \/ RunFlush
    \/ RunAddPair
    \/ RunCommit
    \/ RunSessionRaises

\* The service as constructed, with the LLM client available or not.
AnalysisSpecInit ==
    /\ RetryInit /\ EvalInit /\ BatchInit /\ RateInit /\ LexParked /\ SgInit
    /\ ScanParked /\ RagInit /\ LaterInit

AnalysisSpec == AnalysisSpecInit /\ [][AnalysisNext]_vars

RagSpec == RagSpecInit /\ [][RagNext]_vars

====
